---- MODULE Spec2Model ----
(***************************************************************************)
(* Model of the template synchronization engine of tmpl (tmpl.sync):       *)
(*   - the directory comparator            (sync/comparator.py)            *)
(*   - the chunk-based Jinja resolver      (sync/resolver.py)              *)
(*   - the resolution validator            (sync/resolver.py)              *)
(*   - the synchronization driver          (sync/differ.py)                *)
(* and of the commands around it:                                          *)
(*   - the materialized path mapper        (templates/manager.py)          *)
(*   - version bumping                     (git/versioning.py)             *)
(*   - tagging                             (git/tagging.py, cli.py)        *)
(*   - get_template and the snippet search (mcp/search.py)                 *)
(*   - the all command                     (cli.py)                        *)
(*   - the changed command                 (git/changes.py, cli.py)        *)
(*   - the template variables parser       (templates/copier_integration)  *)
(* of the filing workflow (extraction_review/process_file.py), and of the  *)
(* coding agent package:                                                   *)
(*   - CodingAgentWorkflow                 (workflow/workflow.py)          *)
(*   - ClaudeCodingAgent                   (adapters/claude_code/agent.py) *)
(* A file is the string of its bytes; ReadText is what a text-mode read    *)
(* returns. A line list is a sequence of strings.                          *)
(* Python's 0-based indices are kept; a sequence element a[i] of the code  *)
(* is a[i + 1] here.                                                       *)
(***************************************************************************)
EXTENDS Integers, Sequences, FiniteSets, TLC

VARIABLES
    \* --- resolver: attempt_chunk_based_jinja_resolution
    pc,                 \* position of the running function
    template_file,      \* content of the template file on disk, or NoFile
    expected_content,   \* argument: rendering of the template
    actual_content,     \* argument: content found in the rendered project
    exp_to_tpl,         \* expected line index -> template line index
    opcodes,            \* edit script from expected_lines to actual_lines
    op_index,           \* opcodes handled so far
    walk,               \* new_template_lines, delta_offset, changes_made
    result,             \* what attempt_chunk_based_jinja_resolution returned
    \* --- validator: validate_auto_resolved_template
    caller,             \* "attempt" or "direct"
    file_before,        \* template_file when the validator was called
    original_content,   \* local variable of the validator
    resolved_content,   \* argument: the candidate body
    expected_materialized_content,  \* argument
    v_return,           \* value of the return statement reached
    v_raised,           \* an exception left the validator
    \* --- comparator: compare_directories
    expected_dir,       \* tree of the expected project: path -> content or NoFile
    actual_dir,         \* tree of the rendered project: path -> content or NoFile
    gitignored,         \* paths of actual_dir that git's exclude rules hide
    differences,        \* list returned by the last compare_directories call
    prev_differences,   \* list returned by the call before it
    calls,              \* number of compare_directories calls made
    \* --- driver: compare_with_expected_materialized
    template_dir,       \* tree of the template: template path -> content or NoFile
    template_ignored,   \* paths of template_dir that git's exclude rules hide
    run_log,            \* one record per finished run of the driver
    \* --- path mapper: map_materialized_to_template_path
    m_variables,        \* what parse_template_variables returned
    m_path,             \* argument: the materialized path
    m_returned,         \* template path returned by the last call
    m_prev_returned,    \* template path returned by the call before it
    m_calls,            \* number of calls made
    \* --- version bumping: apply_version_bumps
    b_heap,             \* the dict objects: object id -> entry (key -> value)
    b_mapping,          \* argument mapping: template name -> object id
    b_decisions,        \* argument decisions: list of <<name, action>> items
    b_updated,          \* the returned mapping: template name -> object id
    \* --- tagging: tag_versions_cmd and tag_all_versions
    t_mapping,          \* argument mapping: list of <<name, cfg>> items
    t_dry_run,          \* argument dry_run
    t_split,            \* template name -> commit git subtree split computes
    t_index,            \* items of the mapping handled so far
    t_remote_tags,      \* the remote repositories: remote -> tag name -> tag
    t_local_remotes,    \* names of the remotes configured in the local clone
    t_commands,         \* git commands executed so far, each with its outcome
    t_tagged,           \* local list tagged; returned at the end
    t_errors,           \* local list errors
    \* --- template reader: get_template
    g_file,             \* content of the template file, or NoFile
    g_start_line,       \* argument start_line: <<>> for None, <<k>> for k
    g_end_line,         \* argument end_line: <<>> for None, <<k>> for k
    g_max_lines,        \* argument max_lines
    g_result,           \* string returned by get_template, or Raised
    \* --- template search: _find_snippets and format_results_pretty
    s_lines,            \* lines of the file searched
    s_query_tokens,     \* the tokens of the query, lowercased
    s_context_lines,    \* argument context_lines
    s_matches,          \* the Match list handed to the formatter
    s_output,           \* string returned by format_results_pretty
    \* --- tmpl all: all_cmd
    a_templates,        \* list(MAPPING_DATA.keys())
    a_outcomes,         \* how the subcommand ends for each template, in order
    a_continue,         \* option --continue-on-error
    a_processed,        \* templates the subcommand was invoked for, in order
    a_failed,           \* local list failed_templates
    a_status,           \* running, returned, exited or raised
    a_code,             \* exit status of the process once it has ended
    \* --- variables: parse_template_variables
    p_answers,          \* content of .copier-answers.yml: key -> value
    p_questions,        \* template.questions_data: list of <<name, config>> items
    p_result,           \* the dict result: variable -> value
    p_pass,             \* passes of the outer loop started
    p_index,            \* questions handled in the current pass
    p_changed,          \* local variable changed
    \* --- extraction: ProcessFileWorkflow
    x_pc,               \* run -> step of ProcessFileWorkflow the run is at
    x_hash,             \* run -> SHA-256 of the content of the run's file
    x_classifier,       \* run -> what the classifier did in the run
    x_filing_type,      \* run -> state.filing_type
    x_classified,       \* run -> filing_type of the FileClassifiedEvent of the run
    x_schema,           \* run -> schema given to the extraction agent
    x_store,            \* the agent data store: set of items
    x_created,          \* number of items created so far
    x_recorded,         \* the runs that created their item, in order
    \* --- coding agent: CodingAgentWorkflow
    c_event,            \* the event the workflow last emitted, waiting for its step
    c_current_prompt,   \* state.current_prompt
    c_current_mode,     \* state.current_mode
    c_current_plan,     \* state.current_plan
    c_current_result,   \* state.current_result
    c_chat_history,     \* state.chat_history, the role of each message
    c_enable_persistance,\* state.enable_persistance
    c_is_db_inited,     \* self._is_db_inited
    c_decision,         \* the last HumanDecision handled
    c_call,             \* the last call of the agent: method, prompt and final result
    c_runs,             \* agent runs started
    c_decisions,        \* human decisions handled
    \* --- coding agent: ClaudeCodingAgent
    k_permissions,      \* self.permissions
    k_permission_mode,  \* self.options.permission_mode
    k_is_db_inited,     \* self._is_db_inited
    k_is_warmed_up,     \* self._is_warmed_up
    k_streams,          \* the streams returned and not yet consumed, by method
    k_queries,          \* the queries issued: method and permission mode
    k_overlapped,       \* a call was made while a stream was unconsumed
    k_calls,            \* calls of plan() and generate()
    \* --- changed command
    d_files,            \* the changed files git lists
    d_template_names,   \* the keys of the mapping, in its order
    d_fmt,              \* --format
    d_changed,          \* what templates_from_files returned
    d_printed,          \* the lines printed
    d_github_output     \* the lines appended to $GITHUB_OUTPUT

resolverData == <<template_file, expected_content, actual_content, exp_to_tpl,
                  opcodes, op_index, walk, result>>
resolverVars == <<pc, resolverData>>
validatorVars == <<caller, file_before, original_content, resolved_content,
                   expected_materialized_content, v_return, v_raised>>
comparatorVars == <<expected_dir, actual_dir, gitignored, differences,
                    prev_differences, calls>>
driverVars == <<template_dir, template_ignored, run_log>>
mapperVars == <<m_variables, m_path, m_returned, m_prev_returned, m_calls>>
syncVars == <<resolverVars, validatorVars, comparatorVars, driverVars>>
\* The state of the synchronization engine other than pc.
syncData == <<resolverData, validatorVars, comparatorVars, driverVars>>
versionVars == <<b_heap, b_mapping, b_decisions, b_updated>>
tagVars == <<t_mapping, t_dry_run, t_split, t_index, t_remote_tags,
             t_local_remotes, t_commands, t_tagged, t_errors>>
templateVars == <<g_file, g_start_line, g_end_line, g_max_lines, g_result>>
searchVars == <<s_lines, s_query_tokens, s_context_lines, s_matches, s_output>>
allVars == <<a_templates, a_outcomes, a_continue, a_processed, a_failed, a_status, a_code>>
parseVars == <<p_answers, p_questions, p_result, p_pass, p_index, p_changed>>
extractVars == <<x_pc, x_hash, x_classifier, x_filing_type, x_classified, x_schema, x_store, x_created, x_recorded>>
codingVars == <<c_event, c_current_prompt, c_current_mode, c_current_plan, c_current_result, c_chat_history, c_enable_persistance, c_is_db_inited, c_decision, c_call, c_runs, c_decisions>>
agentVars == <<k_permissions, k_permission_mode, k_is_db_inited, k_is_warmed_up, k_streams, k_queries, k_overlapped, k_calls>>
changedVars == <<d_files, d_template_names, d_fmt, d_changed, d_printed, d_github_output>>
toolVars == <<mapperVars, versionVars, tagVars, templateVars, searchVars, allVars, parseVars, extractVars, codingVars, agentVars, changedVars>>
\* For each command, the state of the other commands.
mapperRest == <<versionVars, tagVars, templateVars, searchVars, allVars, parseVars, extractVars, codingVars, agentVars, changedVars>>
versionRest == <<mapperVars, tagVars, templateVars, searchVars, allVars, parseVars, extractVars, codingVars, agentVars, changedVars>>
tagRest == <<mapperVars, versionVars, templateVars, searchVars, allVars, parseVars, extractVars, codingVars, agentVars, changedVars>>
templateRest == <<mapperVars, versionVars, tagVars, searchVars, allVars, parseVars, extractVars, codingVars, agentVars, changedVars>>
searchRest == <<mapperVars, versionVars, tagVars, templateVars, allVars, parseVars, extractVars, codingVars, agentVars, changedVars>>
allRest == <<mapperVars, versionVars, tagVars, templateVars, searchVars, parseVars, extractVars, codingVars, agentVars, changedVars>>
parseRest == <<mapperVars, versionVars, tagVars, templateVars, searchVars, allVars, extractVars, codingVars, agentVars, changedVars>>
extractRest == <<mapperVars, versionVars, tagVars, templateVars, searchVars, allVars, parseVars, codingVars, agentVars, changedVars>>
codingRest == <<mapperVars, versionVars, tagVars, templateVars, searchVars, allVars, parseVars, extractVars, agentVars, changedVars>>
agentRest == <<mapperVars, versionVars, tagVars, templateVars, searchVars, allVars, parseVars, extractVars, codingVars, changedVars>>
changedRest == <<mapperVars, versionVars, tagVars, templateVars, searchVars, allVars, parseVars, extractVars, codingVars, agentVars>>
vars == <<syncVars, toolVars>>

\* Value of an absent file, of Python's None, of a propagated exception and
\* of a result not yet produced.
NoFile == "<absent>"
\* A directory that does not exist: a tree with no path at all.
NoDir == [p \in {} |-> "<absent>"]
None == "<None>"
Raised == "<raised>"
Pending == "<pending>"

----------------------------------------------------------------------------
(* Python string and list primitives used by the code                      *)

Min(x, y) == IF x <= y THEN x ELSE y
Max(x, y) == IF x >= y THEN x ELSE y

\* s[i:j] of Python, for a string or a list, with 0 <= i, j (clamped to len).
Slice(s, i, j) == SubSeq(s, Min(i, Len(s)) + 1, Min(j, Len(s)))

\* `sub in s` of Python on strings.
Contains(s, sub) ==
    \E i \in 1..(Len(s) - Len(sub) + 1) : SubSeq(s, i, i + Len(sub) - 1) = sub

\* Position (1-based) of the first "\n" of s, or 0.
FirstNewline(s) ==
    IF \E i \in 1..Len(s) : SubSeq(s, i, i) = "\n"
    THEN CHOOSE i \in 1..Len(s) :
            /\ SubSeq(s, i, i) = "\n"
            /\ \A k \in 1..(i - 1) : SubSeq(s, k, k) # "\n"
    ELSE 0

\* str.splitlines(): lines without their terminators; a final line with no
\* terminator counts, an empty string has no line.
RECURSIVE splitlines(_)
splitlines(s) ==
    IF s = "" THEN <<>>
    ELSE LET n == FirstNewline(s)
         IN  IF n = 0 THEN <<s>>
             ELSE <<SubSeq(s, 1, n - 1)>> \o splitlines(SubSeq(s, n + 1, Len(s)))

\* "\n".join(lines)
RECURSIVE JoinLines(_)
JoinLines(lines) ==
    IF lines = <<>> THEN ""
    ELSE IF Len(lines) = 1 THEN lines[1]
    ELSE lines[1] \o "\n" \o JoinLines(Tail(lines))

IsSpace(c) == c \in {" ", "\n", "\t", "\r"}

\* str.rstrip(): trailing whitespace removed.
RECURSIVE rstrip(_)
rstrip(s) ==
    IF s # "" /\ IsSpace(SubSeq(s, Len(s), Len(s)))
    THEN rstrip(SubSeq(s, 1, Len(s) - 1))
    ELSE s

\* str.lstrip(): leading whitespace removed.
RECURSIVE lstrip(_)
lstrip(s) ==
    IF s # "" /\ IsSpace(SubSeq(s, 1, 1))
    THEN lstrip(SubSeq(s, 2, Len(s)))
    ELSE s

\* str.strip(): leading and trailing whitespace removed.
strip(s) == lstrip(rstrip(s))

\* str.rstrip("\n"): trailing newlines removed, and nothing else.
RECURSIVE rstrip_newlines(_)
rstrip_newlines(s) ==
    IF s # "" /\ SubSeq(s, Len(s), Len(s)) = "\n"
    THEN rstrip_newlines(SubSeq(s, 1, Len(s) - 1))
    ELSE s

\* open(path, "r", encoding="utf-8").read(): the text of a file whose bytes
\* are `data`. Text mode reads with universal newlines: "\r\n" and a lone
\* "\r" both arrive as "\n". (Writing in text mode on a POSIX system stores
\* the string as it is.)
RECURSIVE ReadText(_)
ReadText(data) ==
    IF \A i \in 1..Len(data) : SubSeq(data, i, i) # "\r" THEN data
    ELSE IF SubSeq(data, 1, 1) # "\r"
    THEN SubSeq(data, 1, 1) \o ReadText(SubSeq(data, 2, Len(data)))
    ELSE IF Len(data) >= 2 /\ SubSeq(data, 2, 2) = "\n"
    THEN "\n" \o ReadText(SubSeq(data, 3, Len(data)))
    ELSE "\n" \o ReadText(SubSeq(data, 2, Len(data)))

----------------------------------------------------------------------------
(* difflib.SequenceMatcher(None, a, b, autojunk=False), as the resolver    *)
(* uses it: no junk, no popularity heuristic.                              *)

\* Length of the longest common run of a[i:ahi] and b[j:bhi] from i and j.
RECURSIVE MatchLen(_, _, _, _, _, _)
MatchLen(a, b, i, j, ahi, bhi) ==
    IF i < ahi /\ j < bhi /\ a[i + 1] = b[j + 1]
    THEN 1 + MatchLen(a, b, i + 1, j + 1, ahi, bhi)
    ELSE 0

\* find_longest_match: of all longest matching blocks in a[alo:ahi] and
\* b[blo:bhi] the one that starts earliest in a, and of those the one that
\* starts earliest in b; <<alo, blo, 0>> when nothing matches.
find_longest_match(a, b, alo, ahi, blo, bhi) ==
    LET cands == { <<i, j, MatchLen(a, b, i, j, ahi, bhi)>> :
                       i \in alo..(ahi - 1), j \in blo..(bhi - 1) }
        Better(x, y) == \/ x[3] > y[3]
                        \/ x[3] = y[3] /\ x[1] < y[1]
                        \/ x[3] = y[3] /\ x[1] = y[1] /\ x[2] <= y[2]
    IN  IF \E c \in cands : c[3] > 0
        THEN CHOOSE c \in cands : \A d \in cands : Better(c, d)
        ELSE <<alo, blo, 0>>

\* The matching blocks of a[alo:ahi] and b[blo:bhi] in increasing order:
\* the longest match, then recursively the pieces to its left and right.
RECURSIVE MatchingBlocksIn(_, _, _, _, _, _)
MatchingBlocksIn(a, b, alo, ahi, blo, bhi) ==
    LET m == find_longest_match(a, b, alo, ahi, blo, bhi)
        i == m[1]
        j == m[2]
        k == m[3]
    IN  IF k = 0 THEN <<>>
        ELSE (IF alo < i /\ blo < j
              THEN MatchingBlocksIn(a, b, alo, i, blo, j) ELSE <<>>)
             \o <<m>>
             \o (IF i + k < ahi /\ j + k < bhi
                 THEN MatchingBlocksIn(a, b, i + k, ahi, j + k, bhi) ELSE <<>>)

\* Adjacent blocks are merged into one.
RECURSIVE CollapseBlocks(_)
CollapseBlocks(blocks) ==
    IF Len(blocks) < 2 THEN blocks
    ELSE LET x == blocks[1]
             y == blocks[2]
         IN  IF x[1] + x[3] = y[1] /\ x[2] + x[3] = y[2]
             THEN CollapseBlocks(<<<<x[1], x[2], x[3] + y[3]>>>>
                                 \o SubSeq(blocks, 3, Len(blocks)))
             ELSE <<x>> \o CollapseBlocks(Tail(blocks))

\* get_matching_blocks(): the blocks and the closing sentinel (la, lb, 0).
get_matching_blocks(a, b) ==
    CollapseBlocks(MatchingBlocksIn(a, b, 0, Len(a), 0, Len(b)))
        \o <<<<Len(a), Len(b), 0>>>>

Opcode(tag, i1, i2, j1, j2) ==
    [tag |-> tag, i1 |-> i1, i2 |-> i2, j1 |-> j1, j2 |-> j2]

\* The loop of get_opcodes() over the matching blocks, from position (i, j).
RECURSIVE OpcodesFrom(_, _, _)
OpcodesFrom(blocks, i, j) ==
    IF blocks = <<>> THEN <<>>
    ELSE LET ai == blocks[1][1]
             bj == blocks[1][2]
             size == blocks[1][3]
             gap == IF i < ai /\ j < bj THEN <<Opcode("replace", i, ai, j, bj)>>
                    ELSE IF i < ai THEN <<Opcode("delete", i, ai, j, bj)>>
                    ELSE IF j < bj THEN <<Opcode("insert", i, ai, j, bj)>>
                    ELSE <<>>
             eq == IF size > 0
                   THEN <<Opcode("equal", ai, ai + size, bj, bj + size)>>
                   ELSE <<>>
         IN  gap \o eq \o OpcodesFrom(Tail(blocks), ai + size, bj + size)

\* get_opcodes(): how to turn a into b.
get_opcodes(a, b) == OpcodesFrom(get_matching_blocks(a, b), 0, 0)

----------------------------------------------------------------------------
(* Rendering, as copier and Jinja do it for the constructs of the model    *)

\* The variable assignment parse_template_variables returns for the template.
Variables == [x |-> "v", project_name_snake |-> "proj"]

RenderError == "<render error>"

\* Position (1-based) of the first occurrence of the 2-character string d
\* in s at or after position i, or 0.
FindFrom(s, d, i) ==
    IF \E k \in i..(Len(s) - 1) : SubSeq(s, k, k + 1) = d
    THEN CHOOSE k \in i..(Len(s) - 1) :
            /\ SubSeq(s, k, k + 1) = d
            /\ \A m \in i..(k - 1) : SubSeq(s, m, m + 1) # d
    ELSE 0

\* Jinja rendering of s from position i: an expression {{name}} becomes the
\* value of the variable (empty when undefined), a comment {#...#} and a
\* statement {%...%} leave nothing, any other character is copied. An
\* unclosed delimiter is a template syntax error.
RECURSIVE RenderFrom(_, _)
RenderFrom(s, i) ==
    IF i > Len(s) THEN ""
    ELSE LET two == SubSeq(s, i, Min(i + 1, Len(s)))
             close == IF two = "{{" THEN "}}"
                      ELSE IF two = "{#" THEN "#}" ELSE "%}"
             e == FindFrom(s, close, i + 2)
             name == strip(SubSeq(s, i + 2, e - 1))
             out == IF two # "{{" THEN ""
                    ELSE IF name \in DOMAIN Variables THEN Variables[name]
                    ELSE ""
         IN  IF two \in {"{{", "{#", "{%"}
             THEN IF e = 0 THEN RenderError
                  ELSE LET rest == RenderFrom(s, e + 2)
                       IN  IF rest = RenderError THEN RenderError
                           ELSE out \o rest
             ELSE LET rest == RenderFrom(s, i + 1)
                  IN  IF rest = RenderError THEN RenderError
                      ELSE SubSeq(s, i, i) \o rest

\* The rendered content of a templated file with body s. Jinja's lexer
\* first turns every line ending of the source into "\n".
Render(s) == RenderFrom(ReadText(s), 1)

----------------------------------------------------------------------------
(* sync/resolver.py: the pure parts of the chunk-based resolution          *)

_line_has_jinja_markers(line) ==
    Contains(line, "{{") \/ Contains(line, "{%") \/ Contains(line, "{#")

\* The loop of _build_expected_to_template_index_map over the opcodes of
\* (template_lines, expected_lines): an equal block maps index for index,
\* any other block maps each of its expected lines to the block's start
\* in the template unless the line is mapped already.
RECURSIVE IndexMapFromOpcodes(_, _)
IndexMapFromOpcodes(ops, mapping) ==
    IF ops = <<>> THEN mapping
    ELSE LET op == ops[1]
             span == Min(op.i2 - op.i1, op.j2 - op.j1)
             next == IF op.tag = "equal"
                     THEN [j \in op.j1..(op.j1 + span - 1) |-> op.i1 + (j - op.j1)]
                            @@ mapping
                     ELSE mapping @@ [j \in op.j1..(op.j2 - 1) |-> op.i1]
         IN  IndexMapFromOpcodes(Tail(ops), next)

_build_expected_to_template_index_map(template_lines, expected_lines) ==
    LET mapping == IndexMapFromOpcodes(get_opcodes(template_lines, expected_lines),
                                       [j \in {} |-> 0])
    IN  IF expected_lines # <<>>
        THEN mapping @@ (Len(expected_lines) :> Len(template_lines))
        ELSE mapping

\* A mutant of tpl_index_from_expected: the running offset is not added.
tpl_index_without_offset(index_map, lines, delta_offset, exp_index) ==
    IF exp_index \in DOMAIN index_map THEN index_map[exp_index] ELSE Len(lines)

\* tpl_index_from_expected: the template index of an expected index, with
\* the running offset added.
tpl_index_from_expected(index_map, lines, delta_offset, exp_index) ==
    (IF exp_index \in DOMAIN index_map THEN index_map[exp_index] ELSE Len(lines))
        + delta_offset

\* A mutant of safe_region_has_jinja: the last line of the range is not looked at.
safe_region_has_jinja_short(lines, t_start, t_end) ==
    \E t \in Max(0, t_start)..(Min(Len(lines), t_end) - 2) :
        _line_has_jinja_markers(lines[t + 1])

\* safe_region_has_jinja: some line of lines[t_start:t_end] has a marker.
safe_region_has_jinja(lines, t_start, t_end) ==
    \E t \in Max(0, t_start)..(Min(Len(lines), t_end) - 1) :
        _line_has_jinja_markers(lines[t + 1])

\* The check before an insert looking only at the line at the insertion
\* point, not at the line before it.
insert_context_has_jinja_right(lines, tpl_start) ==
    \E t \in Max(0, tpl_start)..(Min(Len(lines), tpl_start + 1) - 1) :
        _line_has_jinja_markers(lines[t + 1])

\* The check before an insert: the line before the insertion point or the
\* line at it has a marker.
insert_context_has_jinja(lines, tpl_start) ==
    \E t \in Max(0, tpl_start - 1)..(Min(Len(lines), tpl_start + 1) - 1) :
        _line_has_jinja_markers(lines[t + 1])

\* A slice bound of Python: negative counts from the end, then clamped.
SliceBound(n, i) == IF i < 0 THEN Max(0, n + i) ELSE Min(i, n)

\* lines[s:e] = repl of Python (del lines[s:e] when repl is empty).
SliceAssign(lines, s, e, repl) ==
    LET lo == SliceBound(Len(lines), s)
        hi == Max(lo, SliceBound(Len(lines), e))
    IN  SubSeq(lines, 1, lo) \o repl \o SubSeq(lines, hi + 1, Len(lines))

\* A mutant of WalkState: changes_made starts out, and stays, True.
WalkStateChanged(lines, delta, changed) ==
    [new_template_lines |-> lines, delta_offset |-> delta, changes_made |-> TRUE]

\* The state of the edit walk.
WalkState(lines, delta, changed) ==
    [new_template_lines |-> lines, delta_offset |-> delta, changes_made |-> changed]

\* One iteration of the loop over the opcodes of (expected_lines, actual_lines).
ApplyOpcode(w, op, index_map, actual_lines) ==
    LET lines == w.new_template_lines
        tpl_start == tpl_index_from_expected(index_map, lines, w.delta_offset, op.i1)
        tpl_end == tpl_index_from_expected(index_map, lines, w.delta_offset, op.i2)
        repl == Slice(actual_lines, op.j1, op.j2)
        del_count == Max(0, tpl_end - tpl_start)
    IN  IF op.tag = "equal" THEN w
        ELSE IF op.tag \in {"replace", "delete"}
                /\ safe_region_has_jinja(lines, tpl_start, tpl_end) THEN w
        ELSE IF op.tag = "insert"
             THEN IF insert_context_has_jinja(lines, tpl_start) THEN w
                  ELSE WalkState(SliceAssign(lines, tpl_start, tpl_start, repl),
                                 w.delta_offset + Len(repl), TRUE)
        ELSE IF op.tag = "delete"
             THEN IF del_count > 0
                  THEN WalkState(SliceAssign(lines, tpl_start, tpl_end, <<>>),
                                 w.delta_offset - del_count, TRUE)
                  ELSE w
        ELSE WalkState(SliceAssign(lines, tpl_start, tpl_end, repl),
                       w.delta_offset + Len(repl) - del_count, TRUE)

\* The whole loop.
RECURSIVE WalkOpcodes(_, _, _, _)
WalkOpcodes(w, ops, index_map, actual_lines) ==
    IF ops = <<>> THEN w
    ELSE WalkOpcodes(ApplyOpcode(w, ops[1], index_map, actual_lines),
                     Tail(ops), index_map, actual_lines)

\* The proposed body: the lines joined, with a final newline.
ProposedContent(lines) ==
    LET joined == JoinLines(lines)
    IN  IF Len(joined) > 0 /\ SubSeq(joined, Len(joined), Len(joined)) = "\n"
        THEN joined ELSE joined \o "\n"

----------------------------------------------------------------------------
(* Bounds and input sets of the resolver and the validator                 *)

MaxTemplateLines == 3
MaxActualLines == 3

\* Lines a template is made of: plain lines, an expression and a comment.
TemplateLineAlphabet == {"a", "b", "{{x}}", "{#c#}"}
\* Lines of the content found in the rendered project.
ActualLineAlphabet == {"a", "v", "", "{{x}}"}

LineLists(alphabet, n) == UNION { [1..k -> alphabet] : k \in 0..n }

\* The content of a file with the given lines, each ended by a newline.
RECURSIVE FileContent(_)
FileContent(lines) ==
    IF lines = <<>> THEN "" ELSE lines[1] \o "\n" \o FileContent(Tail(lines))

TemplateContents ==
    { FileContent(l) : l \in LineLists(TemplateLineAlphabet, MaxTemplateLines) }
ActualContents ==
    { FileContent(l) : l \in LineLists(ActualLineAlphabet, MaxActualLines) }

\* Inputs of a direct call of the validator.
ValidatorContents == {"a\n", "a\nb\n", "{{x}}\n", "v\n", " v\n\n", "{{x\n"}
\* Template files stored with CRLF line endings.
CrlfTemplateContents == {"a\r\nb\r\n", "{{x}}\r\na\r\n"}

EmptyMap == [j \in {} |-> 0]

validatorIdle ==
    /\ caller = "none"
    /\ file_before = NoFile
    /\ original_content = None
    /\ resolved_content = ""
    /\ expected_materialized_content = ""
    /\ v_return = FALSE
    /\ v_raised = FALSE

comparatorIdle ==
    /\ expected_dir = NoDir
    /\ actual_dir = NoDir
    /\ gitignored = {}
    /\ differences = <<>>
    /\ prev_differences = <<>>
    /\ calls = 0

driverIdle ==
    /\ template_dir = NoDir
    /\ template_ignored = {}
    /\ run_log = <<>>

resolverIdle ==
    /\ template_file = NoFile
    /\ expected_content = ""
    /\ actual_content = ""
    /\ exp_to_tpl = EmptyMap
    /\ opcodes = <<>>
    /\ op_index = 0
    /\ walk = [new_template_lines |-> <<>>, delta_offset |-> 0,
               changes_made |-> FALSE]
    /\ result = Pending

mapperIdle ==
    /\ m_variables = EmptyMap
    /\ m_path = ""
    /\ m_returned = Pending
    /\ m_prev_returned = Pending
    /\ m_calls = 0

versionIdle ==
    /\ b_heap = <<>>
    /\ b_mapping = EmptyMap
    /\ b_decisions = <<>>
    /\ b_updated = EmptyMap

tagIdle ==
    /\ t_mapping = <<>>
    /\ t_dry_run = FALSE
    /\ t_split = EmptyMap
    /\ t_index = 0
    /\ t_remote_tags = EmptyMap
    /\ t_local_remotes = {}
    /\ t_commands = <<>>
    /\ t_tagged = <<>>
    /\ t_errors = <<>>

templateIdle ==
    /\ g_file = NoFile
    /\ g_start_line = <<>>
    /\ g_end_line = <<>>
    /\ g_max_lines = 0
    /\ g_result = Pending

searchIdle ==
    /\ s_lines = <<>>
    /\ s_query_tokens = <<>>
    /\ s_context_lines = 0
    /\ s_matches = <<>>
    /\ s_output = Pending

allIdle ==
    /\ a_templates = <<>>
    /\ a_outcomes = <<>>
    /\ a_continue = FALSE
    /\ a_processed = <<>>
    /\ a_failed = <<>>
    /\ a_status = "idle"
    /\ a_code = 0

parseIdle ==
    /\ p_answers = EmptyMap
    /\ p_questions = <<>>
    /\ p_result = EmptyMap
    /\ p_pass = 0
    /\ p_index = 0
    /\ p_changed = FALSE

\* The runs of ProcessFileWorkflow, and the classifier not called yet.
MaxWorkflowRuns == 2
WorkflowRuns == 1..MaxWorkflowRuns
NotClassified == [kind |-> "none", type |-> None]

extractIdle ==
    /\ x_pc = [r \in WorkflowRuns |-> "idle"]
    /\ x_hash = [r \in WorkflowRuns |-> ""]
    /\ x_classifier = [r \in WorkflowRuns |-> NotClassified]
    /\ x_filing_type = [r \in WorkflowRuns |-> None]
    /\ x_classified = [r \in WorkflowRuns |-> Pending]
    /\ x_schema = [r \in WorkflowRuns |-> Pending]
    /\ x_store = {}
    /\ x_created = 0
    /\ x_recorded = <<>>

codingIdle ==
    /\ c_event = [name |-> "idle", arg |-> ""]
    /\ c_current_prompt = "<None>"
    /\ c_current_mode = "<None>"
    /\ c_current_plan = ""
    /\ c_current_result = ""
    /\ c_chat_history = <<>>
    /\ c_enable_persistance = FALSE
    /\ c_is_db_inited = FALSE
    /\ c_decision = [type |-> "", response |-> ""]
    /\ c_call = [method |-> "", prompt |-> "", result |-> ""]
    /\ c_runs = 0
    /\ c_decisions = 0

agentIdle ==
    /\ k_permissions = "<None>"
    /\ k_permission_mode = "<None>"
    /\ k_is_db_inited = FALSE
    /\ k_is_warmed_up = FALSE
    /\ k_streams = <<>>
    /\ k_queries = <<>>
    /\ k_overlapped = FALSE
    /\ k_calls = 0

changedIdle ==
    /\ d_files = <<>>
    /\ d_template_names = <<>>
    /\ d_fmt = ""
    /\ d_changed = <<>>
    /\ d_printed = <<>>
    /\ d_github_output = <<>>

toolsIdle ==
    /\ mapperIdle
    /\ versionIdle
    /\ tagIdle
    /\ templateIdle
    /\ searchIdle
    /\ allIdle
    /\ parseIdle
    /\ extractIdle
    /\ codingIdle
    /\ agentIdle
    /\ changedIdle

\* For each command, the other commands not running.
mapperRestIdle == versionIdle /\ tagIdle /\ templateIdle /\ searchIdle /\ allIdle /\ parseIdle /\ extractIdle /\ codingIdle /\ agentIdle /\ changedIdle
versionRestIdle == mapperIdle /\ tagIdle /\ templateIdle /\ searchIdle /\ allIdle /\ parseIdle /\ extractIdle /\ codingIdle /\ agentIdle /\ changedIdle
tagRestIdle == mapperIdle /\ versionIdle /\ templateIdle /\ searchIdle /\ allIdle /\ parseIdle /\ extractIdle /\ codingIdle /\ agentIdle /\ changedIdle
templateRestIdle == mapperIdle /\ versionIdle /\ tagIdle /\ searchIdle /\ allIdle /\ parseIdle /\ extractIdle /\ codingIdle /\ agentIdle /\ changedIdle
searchRestIdle == mapperIdle /\ versionIdle /\ tagIdle /\ templateIdle /\ allIdle /\ parseIdle /\ extractIdle /\ codingIdle /\ agentIdle /\ changedIdle
allRestIdle == mapperIdle /\ versionIdle /\ tagIdle /\ templateIdle /\ searchIdle /\ parseIdle /\ extractIdle /\ codingIdle /\ agentIdle /\ changedIdle
parseRestIdle == mapperIdle /\ versionIdle /\ tagIdle /\ templateIdle /\ searchIdle /\ allIdle /\ extractIdle /\ codingIdle /\ agentIdle /\ changedIdle
extractRestIdle == mapperIdle /\ versionIdle /\ tagIdle /\ templateIdle /\ searchIdle /\ allIdle /\ parseIdle /\ codingIdle /\ agentIdle /\ changedIdle
codingRestIdle == mapperIdle /\ versionIdle /\ tagIdle /\ templateIdle /\ searchIdle /\ allIdle /\ parseIdle /\ extractIdle /\ agentIdle /\ changedIdle
agentRestIdle == mapperIdle /\ versionIdle /\ tagIdle /\ templateIdle /\ searchIdle /\ allIdle /\ parseIdle /\ extractIdle /\ codingIdle /\ changedIdle
changedRestIdle == mapperIdle /\ versionIdle /\ tagIdle /\ templateIdle /\ searchIdle /\ allIdle /\ parseIdle /\ extractIdle /\ codingIdle /\ agentIdle

----------------------------------------------------------------------------
(* sync/resolver.py: attempt_chunk_based_jinja_resolution, step by step    *)

\* Lines 47-64: the existence check, the read of the template file (which
\* may raise) and the set-up of the walk.
AttemptStart ==
    /\ UNCHANGED <<comparatorVars, driverVars, toolVars>>
    /\ pc = "a_start"
    /\ \E read_ok \in BOOLEAN :
        IF template_file = NoFile
        THEN /\ read_ok
             /\ result' = None
             /\ pc' = "a_done"
             /\ UNCHANGED <<exp_to_tpl, opcodes, walk>>
        ELSE IF ~read_ok
        THEN /\ result' = Raised
             /\ pc' = "a_done"
             /\ UNCHANGED <<exp_to_tpl, opcodes, walk>>
        ELSE LET template_lines == splitlines(ReadText(template_file))
                 expected_lines == splitlines(expected_content)
                 actual_lines == splitlines(actual_content)
             IN  /\ exp_to_tpl' = _build_expected_to_template_index_map(
                                      template_lines, expected_lines)
                 /\ opcodes' = get_opcodes(expected_lines, actual_lines)
                 /\ walk' = WalkState(template_lines, 0, FALSE)
                 /\ pc' = "a_walk"
                 /\ UNCHANGED result
    /\ UNCHANGED <<template_file, expected_content, actual_content, op_index>>
    /\ UNCHANGED validatorVars

\* Lines 77-111: one iteration of the loop over the opcodes.
AttemptWalkStep ==
    /\ UNCHANGED <<comparatorVars, driverVars, toolVars>>
    /\ pc = "a_walk"
    /\ op_index < Len(opcodes)
    /\ walk' = ApplyOpcode(walk, opcodes[op_index + 1], exp_to_tpl,
                           splitlines(actual_content))
    /\ op_index' = op_index + 1
    /\ UNCHANGED <<pc, template_file, expected_content, actual_content, exp_to_tpl,
                   opcodes, result>>
    /\ UNCHANGED validatorVars

\* Lines 113-122: no change made returns None; otherwise the proposed body
\* is handed to the validator.
AttemptAfterWalk ==
    /\ UNCHANGED <<comparatorVars, driverVars, toolVars>>
    /\ pc = "a_walk"
    /\ op_index = Len(opcodes)
    /\ IF ~walk.changes_made
       THEN /\ result' = None
            /\ pc' = "a_done"
            /\ UNCHANGED validatorVars
       ELSE /\ resolved_content' = ProposedContent(walk.new_template_lines)
            /\ expected_materialized_content' = actual_content
            /\ caller' = "attempt"
            /\ pc' = "v_read"
            /\ UNCHANGED <<result, file_before, original_content, v_return, v_raised>>
    /\ UNCHANGED <<template_file, expected_content, actual_content, exp_to_tpl,
                   opcodes, op_index, walk>>

\* Lines 120-125: the validator's answer decides the result; an exception
\* that left the validator leaves this function too.
AttemptReturn ==
    /\ UNCHANGED <<comparatorVars, driverVars, toolVars>>
    /\ pc = "v_done"
    /\ caller = "attempt"
    /\ result' = IF v_raised THEN Raised
                 ELSE IF v_return THEN resolved_content ELSE None
    /\ pc' = "a_done"
    /\ UNCHANGED <<template_file, expected_content, actual_content, exp_to_tpl,
                   opcodes, op_index, walk>>
    /\ UNCHANGED validatorVars

----------------------------------------------------------------------------
(* sync/resolver.py: validate_auto_resolved_template, step by step         *)

\* Lines 135-138, before the try: the original content is read when the
\* file exists; a failing read raises to the caller.
ValidateReadOriginal ==
    /\ UNCHANGED <<comparatorVars, driverVars, toolVars>>
    /\ pc = "v_read"
    /\ file_before' = template_file
    /\ \E read_ok \in BOOLEAN :
        IF template_file = NoFile
        THEN /\ read_ok
             /\ original_content' = None
             /\ pc' = "v_write"
             /\ UNCHANGED v_raised
        ELSE IF read_ok
        THEN /\ original_content' = ReadText(template_file)
             /\ pc' = "v_write"
             /\ UNCHANGED v_raised
        ELSE /\ v_raised' = TRUE
             /\ pc' = "v_done"
             /\ UNCHANGED original_content
    /\ UNCHANGED <<template_file, expected_content, actual_content, exp_to_tpl,
                   opcodes, op_index, walk, result>>
    /\ UNCHANGED <<caller, resolved_content, expected_materialized_content, v_return>>

\* Lines 141-143: the candidate is written to the template file; a failure
\* is caught by the except clause.
ValidateWriteCandidate ==
    /\ UNCHANGED <<comparatorVars, driverVars, toolVars>>
    /\ pc = "v_write"
    /\ \E write_ok \in BOOLEAN :
        IF write_ok
        THEN /\ template_file' = resolved_content
             /\ pc' = "v_render"
             /\ UNCHANGED v_return
        ELSE /\ v_return' = FALSE
             /\ pc' = "v_restore"
             /\ UNCHANGED template_file
    /\ UNCHANGED <<expected_content, actual_content, exp_to_tpl, opcodes, op_index,
                   walk, result>>
    /\ UNCHANGED <<caller, file_before, original_content, resolved_content,
                   expected_materialized_content, v_raised>>

\* Lines 145-181: the template is rendered into a scratch directory, the
\* rendered file is located and read, and the stripped contents are
\* compared. Rendering or reading may raise and the rendered file may be
\* missing: each makes the return value False.
ValidateRender ==
    /\ UNCHANGED <<comparatorVars, driverVars, toolVars>>
    /\ pc = "v_render"
    /\ \E outcome \in {"ok", "error", "missing"} :
        LET rendered == Render(template_file)
            validation_actual == ReadText(rendered)
        IN  /\ rendered = RenderError => outcome = "error"
            /\ v_return' = IF outcome = "ok"
                           THEN strip(validation_actual)
                                    = strip(expected_materialized_content)
                           ELSE FALSE
    /\ pc' = "v_restore"
    /\ UNCHANGED <<template_file, expected_content, actual_content, exp_to_tpl, opcodes,
                   op_index, walk, result>>
    /\ UNCHANGED <<caller, file_before, original_content, resolved_content,
                   expected_materialized_content, v_raised>>

\* Lines 182-185, the finally clause: the original content is written back
\* when there was one; a failing write raises to the caller.
ValidateRestore ==
    /\ UNCHANGED <<comparatorVars, driverVars, toolVars>>
    /\ pc = "v_restore"
    /\ \E write_ok \in BOOLEAN :
        IF original_content = None
        THEN /\ write_ok
             /\ UNCHANGED <<template_file, v_raised>>
        ELSE IF write_ok
        THEN /\ template_file' = original_content
             /\ UNCHANGED v_raised
        ELSE /\ v_raised' = TRUE
             /\ UNCHANGED template_file
    /\ pc' = "v_done"
    /\ UNCHANGED <<expected_content, actual_content, exp_to_tpl, opcodes, op_index,
                   walk, result>>
    /\ UNCHANGED <<caller, file_before, original_content, resolved_content,
                   expected_materialized_content, v_return>>

----------------------------------------------------------------------------
(* Specifications of the resolver and of the validator                     *)

\* attempt_chunk_based_jinja_resolution called as the driver calls it: with
\* the rendering of the template file as expected_content.
InitResolve ==
    /\ pc = "a_start"
    /\ template_file \in {NoFile} \cup TemplateContents \cup CrlfTemplateContents
    /\ expected_content =
          (IF template_file = NoFile THEN "" ELSE ReadText(Render(template_file)))
    /\ actual_content \in ActualContents
    /\ template_file = NoFile => actual_content = ""
    /\ exp_to_tpl = EmptyMap
    /\ opcodes = <<>>
    /\ op_index = 0
    /\ walk = WalkState(<<>>, 0, FALSE)
    /\ result = Pending
    /\ validatorIdle
    /\ comparatorIdle
    /\ driverIdle
    /\ toolsIdle

NextResolve ==
    \/ AttemptStart
    \/ AttemptWalkStep
    \/ AttemptAfterWalk
    \/ ValidateReadOriginal
    \/ ValidateWriteCandidate
    \/ ValidateRender
    \/ ValidateRestore
    \/ AttemptReturn

SpecResolve == InitResolve /\ [][NextResolve]_vars

\* validate_auto_resolved_template called directly.
InitValidate ==
    /\ pc = "v_read"
    /\ template_file \in {NoFile} \cup ValidatorContents \cup CrlfTemplateContents
    /\ expected_content = ""
    /\ actual_content = ""
    /\ exp_to_tpl = EmptyMap
    /\ opcodes = <<>>
    /\ op_index = 0
    /\ walk = WalkState(<<>>, 0, FALSE)
    /\ result = Pending
    /\ caller = "direct"
    /\ file_before = template_file
    /\ original_content = None
    /\ resolved_content \in ValidatorContents
    /\ expected_materialized_content \in ValidatorContents
    /\ v_return = FALSE
    /\ v_raised = FALSE
    /\ comparatorIdle
    /\ driverIdle
    /\ toolsIdle

NextValidate ==
    \/ ValidateReadOriginal
    \/ ValidateWriteCandidate
    \/ ValidateRender
    \/ ValidateRestore

SpecValidate == InitValidate /\ [][NextValidate]_vars

----------------------------------------------------------------------------
(* Claims about the resolver and the validator                             *)

\* A line carries a templating marker.
HasMarker(line) == \E d \in {"{{", "{%", "{#"} : Contains(line, d)

\* The lines of a list that carry a marker, in order.
RECURSIVE MarkerLines(_)
MarkerLines(lines) ==
    IF lines = <<>> THEN <<>>
    ELSE (IF HasMarker(lines[1]) THEN <<lines[1]>> ELSE <<>>)
         \o MarkerLines(Tail(lines))

\* u is a subsequence of w: its elements occur in w in the same order.
RECURSIVE IsSubsequence(_, _)
IsSubsequence(u, w) ==
    IF u = <<>> THEN TRUE
    ELSE IF w = <<>> THEN FALSE
    ELSE IF u[1] = w[1] THEN IsSubsequence(Tail(u), Tail(w))
    ELSE IsSubsequence(u, Tail(w))

IsBody(r) == r \notin {Pending, None, Raised}

\* C1 (as claimed): a body returned by attempt_chunk_based_jinja_resolution
\* renders to actual_content exactly, trailing whitespace aside.
C1_RoundTripTrailingOnly ==
    (pc = "a_done" /\ IsBody(result))
        => rstrip(Render(result)) = rstrip(actual_content)

\* C2: every marker line of the original template stays in the edited line
\* list, unchanged and in order, after every step of the walk and in the
\* proposed body; a delete or replace whose template range holds a marker
\* line changes nothing.
C2_MarkerLinesKept ==
    /\ pc = "a_walk" =>
          IsSubsequence(MarkerLines(splitlines(ReadText(template_file))),
                        walk.new_template_lines)
    /\ pc \in {"v_read", "v_write", "v_render", "v_restore", "v_done", "a_done"}
       /\ caller = "attempt" =>
          IsSubsequence(MarkerLines(splitlines(ReadText(file_before))),
                        splitlines(resolved_content))

C2_RangeOf(k) ==
    LET m(i) == (IF i \in DOMAIN exp_to_tpl THEN exp_to_tpl[i]
                 ELSE Len(walk.new_template_lines)) + walk.delta_offset
    IN  <<m(opcodes[k].i1), m(opcodes[k].i2)>>

C2_SkippedAsAWhole ==
    (/\ pc = "a_walk"
     /\ op_index < Len(opcodes)
     /\ op_index' = op_index + 1
     /\ opcodes[op_index + 1].tag \in {"replace", "delete"}
     /\ \E t \in (C2_RangeOf(op_index + 1)[1] + 1)..C2_RangeOf(op_index + 1)[2] :
           /\ t \in 1..Len(walk.new_template_lines)
           /\ HasMarker(walk.new_template_lines[t]))
        => walk' = walk

C2_LiveSyntaxSafe == [](C2_MarkerLinesKept) /\ [][C2_SkippedAsAWhole]_vars

\* Witness of C2: the walk is over, it changed the template, and one of its
\* deletes or replaces met a marker line in its range and was skipped.
C2_Witness ==
    /\ pc = "a_walk"
    /\ op_index = Len(opcodes)
    /\ walk.changes_made
    /\ \E k \in 1..Len(opcodes) :
        LET before == WalkOpcodes(WalkState(splitlines(ReadText(template_file)),
                                            0, FALSE),
                                  SubSeq(opcodes, 1, k - 1), exp_to_tpl,
                                  splitlines(actual_content))
            s == tpl_index_from_expected(exp_to_tpl, before.new_template_lines,
                                         before.delta_offset, opcodes[k].i1)
            e == tpl_index_from_expected(exp_to_tpl, before.new_template_lines,
                                         before.delta_offset, opcodes[k].i2)
        IN  /\ opcodes[k].tag \in {"replace", "delete"}
            /\ \E t \in (s + 1)..e : HasMarker(before.new_template_lines[t])

\* C3 (as claimed): when the validator has returned, the template file is
\* as it was before the call, whether or not it existed.
C3_FileRestored ==
    (pc = "v_done" /\ ~v_raised) => template_file = file_before

\* C4 (as claimed): no exception leaves the validator or the resolver.
C4_NeverRaises == ~v_raised /\ result # Raised

----------------------------------------------------------------------------
(* utils/filesystem.py and sync/comparator.py                              *)

\* Position (1-based) of the last "/" of path p, or 0.
LastSlash(p) ==
    IF \E i \in 1..Len(p) : SubSeq(p, i, i) = "/"
    THEN CHOOSE i \in 1..Len(p) :
            /\ SubSeq(p, i, i) = "/"
            /\ \A k \in (i + 1)..Len(p) : SubSeq(p, k, k) # "/"
    ELSE 0

\* Path(p).name: the last component of the path.
PathName(p) == SubSeq(p, LastSlash(p) + 1, Len(p))

\* The files of a directory tree (rglob("*") filtered by is_file()).
Files(dir) == IF dir = NoDir THEN {} ELSE { p \in DOMAIN dir : dir[p] # NoFile }

ignored_files == {".copier-answers.yml"}

\* get_git_tracked_files: every file of the directory, or with
\* respect_gitignore the files `git ls-files --others --cached
\* --exclude-standard` lists (those not in `excluded`) that are files; in
\* both cases without the files named in ignored_files.
get_git_tracked_files(directory, respect_gitignore, excluded) ==
    IF ~respect_gitignore
    THEN { p \in Files(directory) : PathName(p) \notin ignored_files }
    ELSE { p \in Files(directory) \ excluded : PathName(p) \notin ignored_files }

_normalize_newline_end(s) == rstrip_newlines(s) \o "\n"

\* Lines 36-50: the test that appends "Content differs".
ContentDiffers(expected_text, actual_text) ==
    IF _normalize_newline_end(expected_text) = _normalize_newline_end(actual_text)
    THEN FALSE
    ELSE expected_text # actual_text

\* The orders in which iterating over a Python set can yield its elements.
Orderings(S) ==
    { f \in [1..Cardinality(S) -> S] : \A i, j \in DOMAIN f : f[i] = f[j] => i = j }

\* f"{prefix}{file_path}" for each path of the list.
DiffRecords(prefix, paths) == [i \in DOMAIN paths |-> prefix \o paths[i]]

\* compare_directories: the lists it can return. The three loops run over
\* sets, so each appends its records in the set's iteration order.
compare_directories(exp_dir, act_dir, excluded) ==
    LET expected_files == IF exp_dir # NoDir
                          THEN get_git_tracked_files(exp_dir, FALSE, {}) ELSE {}
        actual_files == IF act_dir # NoDir
                        THEN get_git_tracked_files(act_dir, TRUE, excluded) ELSE {}
        Differs(p) == ContentDiffers(ReadText(exp_dir[p]), ReadText(act_dir[p]))
    IN  { DiffRecords("Missing file: ", m)
            \o DiffRecords("Extra file: ", x)
            \o DiffRecords("Content differs: ", SelectSeq(c, Differs)) :
          m \in Orderings(expected_files \ actual_files),
          x \in Orderings(actual_files \ expected_files),
          c \in Orderings(expected_files \cap actual_files) }

MaxCalls == 2

\* Trees the comparator is run on: for each path the contents it may have.
ExpectedOptions ==
    ("a.txt" :> {NoFile, "x\n", "x\n\n", "y\n", "x\ny\n"})
      @@ ("b.txt" :> {NoFile, "x\n"})
      @@ ("sub/c.txt" :> {NoFile, "x\n"})
      @@ ("d.txt" :> {NoFile, "x\n"})
      @@ (".copier-answers.yml" :> {NoFile, "k: 1\n"})
ActualOptions ==
    ("a.txt" :> {NoFile, "x", "x\n", "x \n", "x\r\ny\n"})
      @@ ("b.txt" :> {NoFile, "x\n"})
      @@ ("sub/c.txt" :> {NoFile, "x\n", "x"})
      @@ ("d.txt" :> {NoFile, "x\n"})
      @@ (".copier-answers.yml" :> {"k: 1\n", "k: 2\n"})

Trees(options) ==
    { t \in [DOMAIN options -> UNION { options[p] : p \in DOMAIN options }] :
        \A p \in DOMAIN options : t[p] \in options[p] }

\* A call of compare_directories(expected_dir, actual_dir).
CompareDirectories ==
    /\ pc = "compare"
    /\ calls < MaxCalls
    /\ \E d \in compare_directories(expected_dir, actual_dir, gitignored) :
        differences' = d
    /\ prev_differences' = differences
    /\ calls' = calls + 1
    /\ UNCHANGED <<expected_dir, actual_dir, gitignored>>
    /\ UNCHANGED <<resolverVars, validatorVars, driverVars, toolVars>>

InitCompare ==
    /\ template_file = NoFile
    /\ expected_content = ""
    /\ actual_content = ""
    /\ exp_to_tpl = EmptyMap
    /\ opcodes = <<>>
    /\ op_index = 0
    /\ walk = WalkState(<<>>, 0, FALSE)
    /\ result = Pending
    /\ validatorIdle
    /\ pc = "compare"
    /\ expected_dir \in Trees(ExpectedOptions) \cup {NoDir}
    /\ actual_dir \in Trees(ActualOptions) \cup {NoDir}
    /\ gitignored \in SUBSET {"b.txt"}
    /\ gitignored \subseteq Files(actual_dir)
    /\ differences = <<>>
    /\ prev_differences = <<>>
    /\ calls = 0
    /\ driverIdle
    /\ toolsIdle

NextCompare == CompareDirectories

SpecCompare == InitCompare /\ [][NextCompare]_vars

----------------------------------------------------------------------------
(* Claims about the comparator                                             *)

RecordSet(d) == { d[i] : i \in DOMAIN d }

\* The records the claim lists, for the file sets E and A.
C5_Records(E, A) ==
    { "Missing file: " \o p : p \in E \ A }
        \cup { "Extra file: " \o p : p \in A \ E }
        \cup { "Content differs: " \o p :
                 p \in { q \in E \cap A : rstrip_newlines(expected_dir[q])
                                             # rstrip_newlines(actual_dir[q]) } }

C5_NotAnswers(dir) == { p \in Files(dir) : PathName(p) # ".copier-answers.yml" }

\* C5 (as claimed), for trees where git hides no file of the actual side:
\* the records are exactly the missing, the extra and the content-differs
\* ones of the two trees as they are on disk, each once, where two contents
\* differ unless they are byte-equal after trailing-newline normalization.
C5_ExactRecordsOfTrees ==
    (calls > 0 /\ gitignored = {}) =>
        /\ RecordSet(differences)
              = C5_Records(C5_NotAnswers(expected_dir), C5_NotAnswers(actual_dir))
        /\ Len(differences) = Cardinality(RecordSet(differences))

\* C6 (as claimed): two calls on the same trees return the records in the
\* same order.
C6_SameOrderEveryCall ==
    calls >= 2 => differences = prev_differences

----------------------------------------------------------------------------
(* templates/validation.py, templates/copier_integration.py and            *)
(* sync/differ.py: the synchronization driver                              *)

StartsWith(s, prefix) ==
    Len(s) >= Len(prefix) /\ SubSeq(s, 1, Len(prefix)) = prefix

EndsWith(s, suffix) ==
    Len(s) >= Len(suffix) /\ SubSeq(s, Len(s) - Len(suffix) + 1, Len(s)) = suffix

\* str.removesuffix
RemoveSuffix(s, suffix) ==
    IF EndsWith(s, suffix) THEN SubSeq(s, 1, Len(s) - Len(suffix)) ELSE s

\* Path(p).parts: the components of a relative path.
RECURSIVE PathParts(_)
PathParts(p) ==
    IF p = "" THEN <<>>
    ELSE IF \E i \in 1..Len(p) : SubSeq(p, i, i) = "/"
    THEN LET n == CHOOSE i \in 1..Len(p) :
                    /\ SubSeq(p, i, i) = "/"
                    /\ \A k \in 1..(i - 1) : SubSeq(p, k, k) # "/"
         IN  <<SubSeq(p, 1, n - 1)>> \o PathParts(SubSeq(p, n + 1, Len(p)))
    ELSE <<p>>

\* str(Path(*parts))
RECURSIVE JoinPath(_)
JoinPath(parts) ==
    IF parts = <<>> THEN "."
    ELSE IF Len(parts) = 1 THEN parts[1]
    ELSE parts[1] \o "/" \o JoinPath(Tail(parts))

\* (template_dir / p).exists(): true of a file and of a directory, which is
\* there when some file lies below it.
Exists(dir, p) ==
    \/ p \in DOMAIN dir /\ dir[p] # NoFile
    \/ \E q \in DOMAIN dir : dir[q] # NoFile /\ StartsWith(q, p \o "/")

\* The body of map_materialized_to_template_path with every path mapped to
\* itself: the src/<project_name_snake> branch is never taken.
map_materialized_path_literal(variables, tdir, materialized_path) ==
    LET jinja_path == materialized_path \o ".jinja"
    IN  IF Exists(tdir, jinja_path) THEN jinja_path ELSE materialized_path

\* map_materialized_to_template_path, lines 14-35, given the value
\* parse_template_variables returned on line 15.
map_materialized_path_under(variables, tdir, materialized_path) ==
    LET path_parts == PathParts(materialized_path)
        project_name_snake ==
            IF "project_name_snake" \in DOMAIN variables
            THEN variables.project_name_snake ELSE "test_proj"
    IN  IF Len(path_parts) >= 2 /\ path_parts[1] = "src"
           /\ path_parts[2] = project_name_snake
        THEN LET template_path ==
                     JoinPath(<<"src", "{{ project_name_snake }}">>
                              \o SubSeq(path_parts, 3, Len(path_parts)))
                 jinja_path == template_path \o ".jinja"
             IN  IF Exists(tdir, jinja_path) THEN jinja_path ELSE template_path
        ELSE LET jinja_path == materialized_path \o ".jinja"
             IN  IF Exists(tdir, jinja_path) THEN jinja_path ELSE materialized_path

\* map_materialized_to_template_path for the template of the driver, whose
\* variables are Variables.
map_materialized_to_template_path(tdir, materialized_path) ==
    map_materialized_path_under(Variables, tdir, materialized_path)

\* Template files the template's copier configuration excludes from rendering.
CopierExcluded == {"c.cfg.jinja"}

\* The paths of the rendered project.
MaterializedPaths == {"a.txt", "c.cfg", "src/proj/b.py"}

\* run_copier_quietly, lines 20-33: `git clean -Xf` removes the files of the
\* template directory that git ignores.
GitClean(tdir, ignored) ==
    [p \in DOMAIN tdir |-> IF p \in ignored THEN NoFile ELSE tdir[p]]

\* The rendered path of a template file: the .jinja suffix is dropped and
\* the path itself is rendered (resolver.py lines 156-166, as copier does).
MaterializedPathOf(template_path) == Render(RemoveSuffix(template_path, ".jinja"))

\* copier cannot render the template: some templated file has a syntax error.
RenderFails(tdir) ==
    \E tp \in Files(tdir) \ CopierExcluded :
        EndsWith(tp, ".jinja") /\ Render(tdir[tp]) = RenderError

\* run_copier_quietly, lines 35-42: copier renders every template file that
\* is not excluded: a .jinja file is rendered, any other file is copied.
run_copy(tdir) ==
    [mp \in MaterializedPaths |->
        LET sources == { tp \in Files(tdir) \ CopierExcluded :
                            MaterializedPathOf(tp) = mp }
        IN  IF sources = {} THEN NoFile
            ELSE LET tp == CHOOSE t \in sources : TRUE
                 IN  IF EndsWith(tp, ".jinja") THEN Render(tdir[tp]) ELSE tdir[tp]]

\* validate_auto_resolved_template when no file operation fails: the value
\* it returns (the template file is restored afterwards).
ValidationResult(tdir, template_path, candidate, expected_materialized) ==
    LET written == [tdir EXCEPT ![template_path] = candidate]
        materialized_path_str == MaterializedPathOf(template_path)
    IN  IF RenderFails(written) THEN FALSE
        ELSE LET test_proj == run_copy(written)
             IN  IF ~Exists(test_proj, materialized_path_str) THEN FALSE
                 ELSE strip(ReadText(test_proj[materialized_path_str]))
                          = strip(expected_materialized)

\* What attempt_chunk_based_jinja_resolution hands back to the driver: the
\* value it returns and the template directory it leaves.
AttemptOutcome(returned, tdir) == [result |-> returned, template |-> tdir]

\* Lines 119-125: the proposed body is returned when the validator accepts
\* it. The validator's finally clause has written back the text it had read
\* from the template file.
AttemptValidated(tdir, template_path, proposed_content, actual_text) ==
    AttemptOutcome(IF ValidationResult(tdir, template_path, proposed_content,
                                       actual_text)
                   THEN proposed_content ELSE None,
                   [tdir EXCEPT ![template_path] = ReadText(@)])

\* Lines 113-125: a walk that changed nothing returns None.
AttemptAfterOpcodes(tdir, template_path, actual_text, w) ==
    IF ~w.changes_made THEN AttemptOutcome(None, tdir)
    ELSE AttemptValidated(tdir, template_path,
                          ProposedContent(w.new_template_lines), actual_text)

\* Lines 53-111: the walk over the opcodes, from the three line lists.
AttemptWalk(template_lines, expected_lines, actual_lines) ==
    WalkOpcodes(WalkState(template_lines, 0, FALSE),
                get_opcodes(expected_lines, actual_lines),
                _build_expected_to_template_index_map(template_lines, expected_lines),
                actual_lines)

\* attempt_chunk_based_jinja_resolution when no file operation fails.
AttemptResolution(tdir, template_path, expected_text, actual_text) ==
    IF ~Exists(tdir, template_path) THEN AttemptOutcome(None, tdir)
    ELSE AttemptAfterOpcodes(tdir, template_path, actual_text,
                             AttemptWalk(splitlines(ReadText(tdir[template_path])),
                                         splitlines(expected_text),
                                         splitlines(actual_text)))

\* An entry of files_to_copy and an entry of files_needing_manual_fix.
CopyEntry(relative_path, template_path, actual_file, auto_resolved_content) ==
    [relative_path |-> relative_path, template_path |-> template_path,
     actual_file |-> actual_file, auto_resolved_content |-> auto_resolved_content]
ManualEntry(materialized_path, template_path) ==
    [materialized_path |-> materialized_path, template_path |-> template_path]

\* The two lists of the driver, and the template directory as the loop
\* over the differences has left it so far.
Plan(files_to_copy, files_needing_manual_fix, tdir) ==
    [files_to_copy |-> files_to_copy,
     files_needing_manual_fix |-> files_needing_manual_fix,
     template |-> tdir]

\* if auto_resolved_content: a string that is not None and not empty.
Truthy(content) == content # None /\ content # ""

\* Lines 124-157: the list a content difference of a templated file goes
\* to, given what the resolver handed back.
ClassifyTemplated(plan, file_path, template_file_path, attempt) ==
    IF Truthy(attempt.result)
    THEN Plan(Append(plan.files_to_copy,
                     CopyEntry(file_path, template_file_path, None, attempt.result)),
              plan.files_needing_manual_fix,
              attempt.template)
    ELSE Plan(plan.files_to_copy,
              Append(plan.files_needing_manual_fix,
                     ManualEntry(file_path, template_file_path)),
              attempt.template)

\* Lines 148-157 and 170-181: a file with no templated counterpart is
\* listed for a direct copy.
ClassifyPlain(plan, file_path, template_file_path) ==
    Plan(Append(plan.files_to_copy,
                CopyEntry(file_path, template_file_path, file_path, None)),
         plan.files_needing_manual_fix,
         plan.template)

\* Lines 70-157: a content difference. The resolver is called only for a
\* templated file.
ClassifyContentDiffers(plan, file_path, template_file_path, exp_dir, act_dir) ==
    IF EndsWith(template_file_path, ".jinja")
    THEN ClassifyTemplated(plan, file_path, template_file_path,
                           AttemptResolution(plan.template, template_file_path,
                                             ReadText(exp_dir[file_path]),
                                             ReadText(act_dir[file_path])))
    ELSE ClassifyPlain(plan, file_path, template_file_path)

\* Lines 158-181: an extra file.
ClassifyExtra(plan, file_path_str, template_file_path) ==
    IF EndsWith(template_file_path, ".jinja")
    THEN Plan(plan.files_to_copy,
              Append(plan.files_needing_manual_fix,
                     ManualEntry(file_path_str, template_file_path)),
              plan.template)
    ELSE ClassifyPlain(plan, file_path_str, template_file_path)

\* The path a difference record carries after its prefix.
PathAfter(diff, prefix) == SubSeq(diff, Len(prefix) + 1, Len(diff))

\* Lines 69-182: one iteration of the loop over the differences.
ClassifyDifference(plan, diff, exp_dir, act_dir) ==
    IF StartsWith(diff, "Content differs: ")
    THEN ClassifyContentDiffers(
             plan, PathAfter(diff, "Content differs: "),
             map_materialized_to_template_path(
                 plan.template, PathAfter(diff, "Content differs: ")),
             exp_dir, act_dir)
    ELSE IF StartsWith(diff, "Extra file: ")
    THEN ClassifyExtra(
             plan, PathAfter(diff, "Extra file: "),
             map_materialized_to_template_path(
                 plan.template, PathAfter(diff, "Extra file: ")))
    ELSE plan

\* Lines 63-182: the loop over the differences.
RECURSIVE Classify(_, _, _, _)
Classify(plan, diffs, exp_dir, act_dir) ==
    IF diffs = <<>> THEN plan
    ELSE Classify(ClassifyDifference(plan, diffs[1], exp_dir, act_dir),
                  Tail(diffs), exp_dir, act_dir)

\* Lines 194-201: one entry of files_to_copy is applied to the template.
ApplyEntry(tdir, entry, act_dir) ==
    IF Truthy(entry.auto_resolved_content)
    THEN [tdir EXCEPT ![entry.template_path] = entry.auto_resolved_content]
    ELSE [tdir EXCEPT ![entry.template_path] = act_dir[entry.actual_file]]

\* Lines 185-201: the loop over files_to_copy.
RECURSIVE ApplyAll(_, _, _)
ApplyAll(tdir, files_to_copy, act_dir) ==
    IF files_to_copy = <<>> THEN tdir
    ELSE ApplyAll(ApplyEntry(tdir, files_to_copy[1], act_dir),
                  Tail(files_to_copy), act_dir)

\* Lines 184-201 and 213: the template after the run; only fix mode applies
\* the plan.
TemplateAfterRun(fix_mode, tdir, files_to_copy, act_dir) ==
    IF fix_mode THEN ApplyAll(tdir, files_to_copy, act_dir) ELSE tdir

\* A mutant of ReturnValue: fix mode reports success whatever is left.
ReturnValueFixAlwaysTrue(fix_mode, diffs, files_needing_manual_fix) ==
    IF diffs = <<>> THEN TRUE ELSE fix_mode

\* A mutant of ReturnValue: a dry run reports failure even with no difference.
ReturnValueDryRunFalse(fix_mode, diffs, files_needing_manual_fix) ==
    IF fix_mode THEN diffs = <<>> \/ files_needing_manual_fix = <<>>
    ELSE FALSE

\* Lines 49-54 and 184-225: the value the driver returns.
ReturnValue(fix_mode, diffs, files_needing_manual_fix) ==
    IF diffs = <<>> THEN TRUE
    ELSE IF fix_mode THEN files_needing_manual_fix = <<>>
    ELSE FALSE

MaxRuns == 2

\* compare_with_expected_materialized(template_dir, fix_mode): one run, from
\* the rendering of the expected project to the return.
CompareWithExpectedMaterialized ==
    /\ pc = "driver"
    /\ Len(run_log) < MaxRuns
    /\ LET cleaned == GitClean(template_dir, template_ignored)
           expected_proj == run_copy(cleaned)
       IN  /\ ~RenderFails(cleaned)
           /\ \E diffs \in compare_directories(expected_proj, actual_dir, gitignored) :
               LET plan == Classify(Plan(<<>>, <<>>, cleaned), diffs,
                                    expected_proj, actual_dir)
               IN  \E fix_mode \in BOOLEAN :
                   LET after == TemplateAfterRun(fix_mode, plan.template,
                                                 plan.files_to_copy, actual_dir)
                   IN
                    /\ template_dir' = after
                    /\ run_log' = Append(run_log,
                          [fix_mode |-> fix_mode,
                           differences |-> diffs,
                           files_to_copy |-> plan.files_to_copy,
                           files_needing_manual_fix |-> plan.files_needing_manual_fix,
                           returned |-> ReturnValue(fix_mode, diffs,
                                                    plan.files_needing_manual_fix),
                           template_before |-> template_dir,
                           template_after |-> after])
    /\ UNCHANGED <<actual_dir, gitignored, template_ignored, expected_dir,
                   differences, prev_differences, calls>>
    /\ UNCHANGED <<resolverVars, validatorVars, toolVars>>

\* Templates and rendered projects the driver is run on.
DriverTemplateOptions ==
    ("a.txt" :> {NoFile, "x\n"})
      @@ (".env" :> {NoFile, "s\n"})
      @@ ("c.cfg" :> {NoFile})
      @@ ("c.cfg.jinja" :> {"k\n"})
      @@ ("src/{{ project_name_snake }}/b.py" :> {NoFile})
      @@ ("src/{{ project_name_snake }}/b.py.jinja" :>
              {NoFile, "{{x}}\na\n", "{#c#}\na\n", "{{x}}\r\na\r\n"})
DriverRenderedOptions ==
    ("a.txt" :> {NoFile, "x\n", "y\n"})
      @@ ("c.cfg" :> {NoFile, "k\n"})
      @@ ("src/proj/b.py" :> {NoFile, "v\na\n", "v\na\nb\n", "w\na\nb\n", "a\nb\n"})

InitDriver ==
    /\ template_file = NoFile
    /\ expected_content = ""
    /\ actual_content = ""
    /\ exp_to_tpl = EmptyMap
    /\ opcodes = <<>>
    /\ op_index = 0
    /\ walk = WalkState(<<>>, 0, FALSE)
    /\ result = Pending
    /\ validatorIdle
    /\ pc = "driver"
    /\ expected_dir = NoDir
    /\ differences = <<>>
    /\ prev_differences = <<>>
    /\ calls = 0
    /\ template_dir \in Trees(DriverTemplateOptions)
    /\ template_ignored = {".env"}
    /\ actual_dir \in Trees(DriverRenderedOptions)
    /\ gitignored = {}
    /\ run_log = <<>>
    /\ toolsIdle

NextDriver == CompareWithExpectedMaterialized

SpecDriver == InitDriver /\ [][NextDriver]_vars

----------------------------------------------------------------------------
(* Claims about the driver                                                 *)

Runs == DOMAIN run_log

\* The materialized path a difference record is about.
C9_PathOf(diff) ==
    IF StartsWith(diff, "Content differs: ")
    THEN SubSeq(diff, Len("Content differs: ") + 1, Len(diff))
    ELSE SubSeq(diff, Len("Extra file: ") + 1, Len(diff))

\* C7 (as claimed): a fix run that found differences and returned success
\* leaves nothing for the next run to report.
C7_ResolvedMeansNothingLeft ==
    (/\ Len(run_log) >= 2
     /\ run_log[1].fix_mode
     /\ run_log[1].differences # <<>>
     /\ run_log[1].returned)
        => run_log[2].differences = <<>>

\* C8 (as claimed): in every run, dry or not, a failure result means that
\* some file needs manual reconciliation.
C8_FailureMeansManual ==
    \A r \in Runs :
        ~run_log[r].returned => run_log[r].files_needing_manual_fix # <<>>

\* C8 (amended): a run that finds no difference succeeds; a fix run that
\* finds differences fails exactly when some file needs manual
\* reconciliation; a dry run that finds differences always fails.
C8_Outcomes ==
    \A r \in Runs :
        LET run == run_log[r]
        IN  /\ run.differences = <<>> => run.returned
            /\ (run.fix_mode /\ run.differences # <<>>) =>
                   (run.returned <=> run.files_needing_manual_fix = <<>>)
            /\ (~run.fix_mode /\ run.differences # <<>>) => ~run.returned

\* Witness of C8: a dry run failed although nothing needed manual
\* reconciliation, and the fix run after it applied the plan and succeeded.
C8_Witness ==
    /\ Len(run_log) = 2
    /\ ~run_log[1].fix_mode
    /\ ~run_log[1].returned
    /\ run_log[1].files_needing_manual_fix = <<>>
    /\ run_log[2].fix_mode
    /\ run_log[2].files_to_copy # <<>>
    /\ run_log[2].returned

\* C9 (as claimed): in a fix run a .jinja template file is changed only to
\* a body listed in files_to_copy that renders to the rendered project's
\* content (stripped), never by copying the rendered file; every
\* content-differs or extra-file difference is in exactly one of the two
\* lists; a templated file listed for manual resolution, and so every
\* templated extra file, is unchanged.
C9_TemplatedFilesGuarded ==
    \A r \in Runs :
        LET run == run_log[r]
            copies == { i \in DOMAIN run.files_to_copy : TRUE }
            manuals == { i \in DOMAIN run.files_needing_manual_fix : TRUE }
            Listed(path) ==
                Cardinality({ i \in copies : run.files_to_copy[i].relative_path = path })
                + Cardinality({ i \in manuals :
                      run.files_needing_manual_fix[i].materialized_path = path })
        IN  run.fix_mode =>
            /\ \A tp \in DOMAIN run.template_after :
                (EndsWith(tp, ".jinja")
                 /\ run.template_after[tp] # run.template_before[tp]) =>
                    \E i \in copies :
                        LET entry == run.files_to_copy[i]
                        IN  /\ entry.template_path = tp
                            /\ entry.actual_file = None
                            /\ entry.auto_resolved_content = run.template_after[tp]
                            /\ strip(Render(run.template_after[tp]))
                                   = strip(ReadText(actual_dir[entry.relative_path]))
            /\ \A i \in DOMAIN run.differences :
                ~StartsWith(run.differences[i], "Missing file: ") =>
                    Listed(C9_PathOf(run.differences[i])) = 1
            /\ \A i \in DOMAIN run.differences :
                LET path == C9_PathOf(run.differences[i])
                IN  (/\ StartsWith(run.differences[i], "Extra file: ")
                     /\ Exists(run.template_before, path \o ".jinja")) =>
                        \E j \in manuals :
                            run.files_needing_manual_fix[j].materialized_path = path
            /\ \A j \in manuals :
                LET tp == run.files_needing_manual_fix[j].template_path
                IN  /\ EndsWith(tp, ".jinja")
                    /\ run.template_after[tp] = run.template_before[tp]

\* C10 (as claimed), for a template directory that holds no file git
\* ignores: a dry run leaves every file of the template directory as it was
\* and creates or removes none.
C10_DryRunChangesNothing ==
    \A r \in Runs :
        (/\ ~run_log[r].fix_mode
         /\ \A p \in template_ignored : run_log[r].template_before[p] = NoFile)
            => run_log[r].template_after = run_log[r].template_before

\* A run found the rendered copy synchronized: it reported no difference.
C11_Synchronized(r) == run_log[r].differences = <<>>

\* The first of two runs in succession found no difference; both report no
\* difference and return success.
C11_NoDifferencesTwice ==
    \A r \in Runs :
        C11_Synchronized(r) =>
            /\ run_log[r].returned
            /\ (r + 1) \in Runs =>
                   /\ run_log[r + 1].differences = <<>>
                   /\ run_log[r + 1].returned

\* C11 (as claimed): on a synchronized template two runs in succession
\* report no difference and return success, and the first run changes
\* neither the template tree nor the rendered tree.
C11_IdempotentNothingChanged ==
    /\ [](C11_NoDifferencesTwice
          /\ \A r \in Runs :
                C11_Synchronized(r) =>
                    run_log[r].template_after = run_log[r].template_before)
    /\ [][actual_dir' = actual_dir]_vars

\* C11 (amended): as claimed, except that the run removes from the template
\* tree the files git ignores (the clean-up before rendering); it creates no
\* file there and changes no content.
C11_IdempotentOnlyCleans ==
    /\ [](C11_NoDifferencesTwice
          /\ \A r \in Runs :
                C11_Synchronized(r) =>
                    \A tp \in DOMAIN run_log[r].template_after :
                        \/ run_log[r].template_after[tp]
                              = run_log[r].template_before[tp]
                        \/ /\ tp \in template_ignored
                           /\ run_log[r].template_after[tp] = NoFile)
    /\ [][actual_dir' = actual_dir]_vars

\* Witness of C11: two runs in succession on a template with a plain file, a
\* templated file and an ignored file; both found the rendered copy
\* synchronized, and the first removed the ignored file.
C11_Witness ==
    /\ Len(run_log) = 2
    /\ C11_Synchronized(1)
    /\ C11_Synchronized(2)
    /\ run_log[1].template_before["a.txt"] # NoFile
    /\ run_log[1].template_before["src/{{ project_name_snake }}/b.py.jinja"] # NoFile
    /\ run_log[1].template_before[".env"] # NoFile
    /\ run_log[1].template_after[".env"] = NoFile
    /\ actual_dir["src/proj/b.py"] # NoFile

----------------------------------------------------------------------------
(* Further claims about the resolver                                       *)

\* With identical contents the resolver, once it has returned, has returned
\* None: no body, empty or not.
C12_ReportsNoChange ==
    (expected_content = actual_content /\ pc = "a_done")
        => (~IsBody(result) /\ (result # Raised => result = None))

\* With identical contents no step edits the line list, moves the offset,
\* counts a change, hands a body to the validator or touches the file.
C12_NoEdit ==
    expected_content = actual_content =>
        /\ template_file' = template_file
        /\ walk'.new_template_lines \in {<<>>, splitlines(ReadText(template_file))}
        /\ walk'.delta_offset = 0
        /\ ~walk'.changes_made
        /\ pc' \in {"a_walk", "a_done"}

\* C12: when expected_content and actual_content are identical the resolver
\* applies no edit, returns None and never a body, does not call the
\* validator and leaves the template file as it is.
C12_NoOpDetected == [](C12_ReportsNoChange) /\ [][C12_NoEdit]_vars

\* Witness of C12: the resolver walked over identical contents that differ
\* from the template source, and returned None.
C12_Witness ==
    /\ pc = "a_done"
    /\ expected_content = actual_content
    /\ expected_content # ""
    /\ ReadText(template_file) # expected_content
    /\ op_index = Len(opcodes)
    /\ op_index > 0
    /\ result = None

----------------------------------------------------------------------------
(* templates/validation.py: map_materialized_to_template_path called on    *)
(* its own, for templates with and without the variable project_name_snake *)

MaxMapCalls == 2

\* Values parse_template_variables can return: the variable answered, the
\* variable answered with the fallback's name, the variable not defined.
MapperVariables ==
    { [x |-> "v", project_name_snake |-> "proj"],
      [x |-> "v", project_name_snake |-> "test_proj"],
      [x |-> "v"] }

MapperTemplatePaths ==
    { "a.txt.jinja", "d.cfg.jinja/z", "src/proj/b.py.jinja",
      "src/{{ project_name_snake }}/b.py.jinja",
      "src/{{ project_name_snake }}.jinja" }

MapperContents == {NoFile, "k\n", "{{x}}\n"}

MapperPaths ==
    { "a.txt", "d.cfg", "src/proj/b.py", "src/test_proj/b.py", "src/proj",
      "src/other/b.py" }

\* One call of map_materialized_to_template_path(template_dir, m_path).
MapMaterializedPath ==
    /\ pc = "map"
    /\ m_calls < MaxMapCalls
    /\ m_prev_returned' = m_returned
    /\ m_returned' = map_materialized_path_under(m_variables, template_dir, m_path)
    /\ m_calls' = m_calls + 1
    /\ UNCHANGED <<m_variables, m_path, syncVars, mapperRest>>

InitMap ==
    /\ pc = "map"
    /\ resolverIdle
    /\ validatorIdle
    /\ comparatorIdle
    /\ template_dir \in [MapperTemplatePaths -> MapperContents]
    /\ template_ignored = {}
    /\ run_log = <<>>
    /\ m_variables \in MapperVariables
    /\ m_path \in MapperPaths
    /\ m_returned = Pending
    /\ m_prev_returned = Pending
    /\ m_calls = 0
    /\ mapperRestIdle

NextMap == MapMaterializedPath

SpecMap == InitMap /\ [][NextMap]_vars

----------------------------------------------------------------------------
(* Claims about the path mapper                                            *)

\* The path with its leading src/<name> replaced by the template's
\* directory name, or the path itself when it does not start that way.
C13_Base(name, path) ==
    IF path = "src/" \o name \/ StartsWith(path, "src/" \o name \o "/")
    THEN "src/{{ project_name_snake }}"
            \o SubSeq(path, Len("src/" \o name) + 1, Len(path))
    ELSE path

C13_IsFile(p) == p \in DOMAIN template_dir /\ template_dir[p] # NoFile

C13_IsFileOrDirectory(p) ==
    \/ C13_IsFile(p)
    \/ \E q \in DOMAIN template_dir : C13_IsFile(q) /\ StartsWith(q, p \o "/")

C13_SameTwice == m_calls >= 2 => m_returned = m_prev_returned

\* C13 as stated: the returned path is the materialized path with
\* src/<project_name_snake> rewritten when the variables define
\* project_name_snake (and the path itself otherwise), with the .jinja
\* suffix exactly when that suffixed file exists in the template; two calls
\* return the same path.
C13_VariableAndFilesOnly ==
    /\ C13_SameTwice
    /\ m_calls >= 1 =>
          LET base == IF "project_name_snake" \in DOMAIN m_variables
                      THEN C13_Base(m_variables.project_name_snake, m_path)
                      ELSE m_path
          IN  m_returned = (IF C13_IsFile(base \o ".jinja")
                            THEN base \o ".jinja" ELSE base)

\* C13, amended: the directory name rewritten is the value of
\* project_name_snake, or test_proj when the variables do not define it, and
\* the .jinja suffix is carried exactly when a file or a directory of the
\* suffixed name exists in the template; two calls return the same path.
C13_MapsByVariableOrFallback ==
    /\ C13_SameTwice
    /\ m_calls >= 1 =>
          LET name == IF "project_name_snake" \in DOMAIN m_variables
                      THEN m_variables.project_name_snake ELSE "test_proj"
              base == C13_Base(name, m_path)
          IN  m_returned = (IF C13_IsFileOrDirectory(base \o ".jinja")
                            THEN base \o ".jinja" ELSE base)

C13_Witness ==
    /\ m_calls = 2
    /\ m_path = "src/proj/b.py"
    /\ m_variables = [x |-> "v", project_name_snake |-> "proj"]
    /\ template_dir["src/{{ project_name_snake }}/b.py.jinja"] # NoFile
    /\ template_dir["src/proj/b.py.jinja"] # NoFile
    /\ m_returned = "src/{{ project_name_snake }}/b.py.jinja"

----------------------------------------------------------------------------
(* git/versioning.py: bump_version_string and apply_version_bumps          *)

Digits == <<"0", "1", "2", "3", "4", "5", "6", "7", "8", "9">>

\* int() of a string of decimal digits.
RECURSIVE ParseInt(_)
ParseInt(s) ==
    IF s = "" THEN 0
    ELSE LET last == SubSeq(s, Len(s), Len(s))
             d == CHOOSE k \in 1..10 : Digits[k] = last
         IN  10 * ParseInt(SubSeq(s, 1, Len(s) - 1)) + (d - 1)

\* s.split(".")
RECURSIVE SplitDots(_)
SplitDots(s) ==
    IF \E i \in 1..Len(s) : SubSeq(s, i, i) = "."
    THEN LET n == CHOOSE i \in 1..Len(s) :
                    /\ SubSeq(s, i, i) = "."
                    /\ \A k \in 1..(i - 1) : SubSeq(s, k, k) # "."
         IN  <<SubSeq(s, 1, n - 1)>> \o SplitDots(SubSeq(s, n + 1, Len(s)))
    ELSE <<s>>

\* packaging.version.Version(s).release for a version made of numbers and
\* dots: the numbers, in order.
VersionRelease(s) ==
    LET parts == SplitDots(s)
    IN  [i \in 1..Len(parts) |-> ParseInt(parts[i])]

\* Version.major, Version.minor, Version.micro: the first three numbers of
\* the release, 0 for one that is not there.
VersionField(release, i) == IF Len(release) >= i THEN release[i] ELSE 0

\* f"{major}.{minor}.{patch}"
FormatVersion(major, minor, patch) ==
    ToString(major) \o "." \o ToString(minor) \o "." \o ToString(patch)

\* dict.get(key): None for a key that is not there.
Get(d, key) == IF key \in DOMAIN d THEN d[key] ELSE None

\* d[key] = value
SetItem(d, key, value) ==
    [k \in DOMAIN d \cup {key} |-> IF k = key THEN value ELSE d[k]]

\* bump_version_string with a minor bump that keeps the patch number.
bump_version_string_keeps_patch(current, bump) ==
    LET release == IF current = None \/ current = ""
                   THEN <<0, 0, 0>> ELSE VersionRelease(current)
        major == VersionField(release, 1)
        minor == VersionField(release, 2)
        patch == VersionField(release, 3)
    IN  IF bump = "major" THEN FormatVersion(major + 1, 0, 0)
        ELSE IF bump = "minor" THEN FormatVersion(major, minor + 1, patch)
        ELSE IF bump = "patch" THEN FormatVersion(major, minor, patch + 1)
        ELSE FormatVersion(major, minor, patch)

\* bump_version_string
bump_version_string(current, bump) ==
    LET release == IF current = None \/ current = ""
                   THEN <<0, 0, 0>> ELSE VersionRelease(current)
        major == VersionField(release, 1)
        minor == VersionField(release, 2)
        patch == VersionField(release, 3)
    IN  IF bump = "major" THEN FormatVersion(major + 1, 0, 0)
        ELSE IF bump = "minor" THEN FormatVersion(major, minor + 1, 0)
        ELSE IF bump = "patch" THEN FormatVersion(major, minor, patch + 1)
        ELSE FormatVersion(major, minor, patch)

\* Line 47: every entry of the mapping is copied into a new dict object; the
\* copy of object i is object Len(heap) + i.
CopyEntries(heap) == heap \o heap

CopiedMapping(heap, mapping) ==
    [name \in DOMAIN mapping |-> Len(heap) + mapping[name]]

\* Lines 48-54: the loop over decisions.items(), on the heap.
RECURSIVE ApplyDecisions(_, _, _)
ApplyDecisions(heap, updated, decisions) ==
    IF decisions = <<>> THEN heap
    ELSE LET name == Head(decisions)[1]
             action == Head(decisions)[2]
         IN  IF action = "ignore" \/ name \notin DOMAIN updated
             THEN ApplyDecisions(heap, updated, Tail(decisions))
             ELSE LET obj == updated[name]
                      new_version ==
                          bump_version_string(Get(heap[obj], "version"), action)
                  IN  ApplyDecisions(
                          [heap EXCEPT ![obj] = SetItem(@, "version", new_version)],
                          updated, Tail(decisions))

\* Bounds and inputs of the version bump.
MaxDecisions == 2
DecisionNames == {"t1", "t2", "t3"}
Choices == {"major", "minor", "patch", "ignore"}
VersionStrings == {"1.2.3", "0.9.10", "9.9.9", "1.2"}

\* The entries load_mapping can produce, and one that has no version key.
MappingEntries ==
    { [remote |-> "r", url |-> "u", branch |-> "main", version |-> v] :
        v \in {None, ""} \cup VersionStrings }
    \cup { [remote |-> "r", url |-> "u", branch |-> "main"] }

\* decisions is a dict: its items have distinct names.
DecisionLists ==
    { d \in UNION { [1..n -> DecisionNames \X Choices] : n \in 0..MaxDecisions } :
        \A i, j \in DOMAIN d : i # j => d[i][1] # d[j][1] }

\* apply_version_bumps(mapping, decisions)
ApplyVersionBumps ==
    /\ pc = "bump"
    /\ pc' = "bumped"
    /\ b_updated' = CopiedMapping(b_heap, b_mapping)
    /\ b_heap' = ApplyDecisions(CopyEntries(b_heap),
                                CopiedMapping(b_heap, b_mapping), b_decisions)
    /\ UNCHANGED <<b_mapping, b_decisions, syncData, versionRest>>

InitVersion ==
    /\ pc = "bump"
    /\ resolverIdle
    /\ validatorIdle
    /\ comparatorIdle
    /\ driverIdle
    /\ versionRestIdle
    /\ b_heap \in UNION { [1..n -> MappingEntries] : n \in 1..2 }
    /\ b_mapping = (IF Len(b_heap) = 1 THEN ("t1" :> 1)
                    ELSE ("t1" :> 1) @@ ("t2" :> 2))
    /\ b_decisions \in DecisionLists
    /\ b_updated = EmptyMap

NextVersion == ApplyVersionBumps

SpecVersion == InitVersion /\ [][NextVersion]_vars

----------------------------------------------------------------------------
(* Claims about version bumping                                            *)

\* The decision recorded for a name, "none" when there is none.
C14_Decision(name) ==
    IF \E i \in DOMAIN b_decisions : b_decisions[i][1] = name
    THEN b_decisions[CHOOSE i \in DOMAIN b_decisions : b_decisions[i][1] = name][2]
    ELSE "none"

C14_Numbers == 0..11

\* The version a.b.c after the bump, as the claim gives it.
C14_Bumped(a, b, c, bump) ==
    IF bump = "major" THEN FormatVersion(a + 1, 0, 0)
    ELSE IF bump = "minor" THEN FormatVersion(a, b + 1, 0)
    ELSE FormatVersion(a, b, c + 1)

\* The entry is the input entry with version a.b.c (or no version) bumped.
C14_EntryBumped(old, new, bump) ==
    /\ DOMAIN new = DOMAIN old \cup {"version"}
    /\ \A k \in DOMAIN old \ {"version"} : new[k] = old[k]
    /\ \E a, b, c \in C14_Numbers :
          /\ \/ Get(old, "version") = FormatVersion(a, b, c)
             \/ Get(old, "version") \in {None, ""} /\ a = 0 /\ b = 0 /\ c = 0
          /\ new["version"] = C14_Bumped(a, b, c, bump)

C14_IsABC(v) ==
    v \in {None, ""} \/ \E a, b, c \in C14_Numbers : v = FormatVersion(a, b, c)

\* What one call of apply_version_bumps does to the mapping.
C14_Call ==
    (pc = "bump" /\ pc' = "bumped") =>
        \* a new mapping with the same names, made of new objects
        /\ DOMAIN b_updated' = DOMAIN b_mapping
        /\ \A name \in DOMAIN b_mapping :
              /\ b_updated'[name] \notin DOMAIN b_heap
              /\ \A other \in DOMAIN b_mapping :
                    b_updated'[name] = b_updated'[other] => name = other
        \* decided entries are bumped, the others are equal to the input
        /\ \A name \in DOMAIN b_mapping :
              LET old == b_heap[b_mapping[name]]
                  new == b_heap'[b_updated'[name]]
                  bump == C14_Decision(name)
              IN  /\ (bump \in {"major", "minor", "patch"}
                         /\ C14_IsABC(Get(old, "version")))
                        => C14_EntryBumped(old, new, bump)
                  /\ bump \in {"ignore", "none"} => new = old
        \* the input mapping and its entries are as they were
        /\ b_mapping' = b_mapping
        /\ \A obj \in DOMAIN b_heap : b_heap'[obj] = b_heap[obj]

\* C14: apply_version_bumps returns a new mapping in which every present
\* template with decision major, minor or patch has its version a.b.c (0.0.0
\* when missing) changed to (a+1).0.0, a.(b+1).0 or a.b.(c+1), every other
\* entry is identical to the input, and the input mapping is not mutated.
C14_BumpsOnlyDecided == [][C14_Call]_vars

C14_Witness ==
    /\ pc = "bumped"
    /\ b_decisions = <<<<"t2", "minor">>, <<"t3", "patch">>>>
    /\ DOMAIN b_mapping = {"t1", "t2"}
    /\ Get(b_heap[b_mapping["t2"]], "version") = "0.9.10"
    /\ Get(b_heap[b_updated["t2"]], "version") = "0.10.0"
    /\ Get(b_heap[b_mapping["t1"]], "version") = "9.9.9"
    /\ Get(b_heap[b_updated["t1"]], "version") = "9.9.9"

----------------------------------------------------------------------------
(* git/tagging.py and cli.py: tag_all_versions and the tag-versions        *)
(* command. A git command that talks to a remote, splits a subtree or adds *)
(* a remote can fail; which ones do is chosen for every template.          *)

\* Exit status of a failed git command.
GitFailureCode == 128

\* A tag that is not there, a lightweight tag, an annotated tag.
NoTag == [object |-> None, peeled |-> None]
LightTag(commit) == [object |-> commit, peeled |-> None]
AnnotatedTag(object, commit) == [object |-> object, peeled |-> commit]

\* line.split()[0]: the first whitespace-separated word of a line.
RECURSIVE UntilSpace(_)
UntilSpace(s) ==
    IF s = "" \/ IsSpace(SubSeq(s, 1, 1)) THEN ""
    ELSE SubSeq(s, 1, 1) \o UntilSpace(SubSeq(s, 2, Len(s)))

FirstWord(line) == UntilSpace(lstrip(line))

\* What git ls-remote --tags <remote> <tag_name> prints for the tag: one
\* line for the tag, and one for the commit an annotated tag points at.
LsRemoteOutput(tag, tag_name) ==
    IF tag.object = None THEN ""
    ELSE IF tag.peeled = None
    THEN tag.object \o "\trefs/tags/" \o tag_name \o "\n"
    ELSE tag.object \o "\trefs/tags/" \o tag_name \o "\n"
            \o tag.peeled \o "\trefs/tags/" \o tag_name \o "^{}\n"

\* get_remote_tag_hash, lines 26-35, on the stripped output of ls-remote.
TagHashFromOutput(out, tag_name) ==
    IF out = "" THEN None
    ELSE LET lines == splitlines(out)
             peeled == { i \in DOMAIN lines :
                            EndsWith(lines[i], "refs/tags/" \o tag_name \o "^{}") }
         IN  IF peeled # {}
             THEN FirstWord(lines[CHOOSE i \in peeled : \A k \in peeled : i <= k])
             ELSE IF lines[1] # "" THEN FirstWord(lines[1]) ELSE None

\* get_remote_tag_hash: None when ls-remote fails (lines 36-37).
get_remote_tag_hash(tag, tag_name, ls_ok) ==
    IF ls_ok THEN TagHashFromOutput(strip(LsRemoteOutput(tag, tag_name)), tag_name)
    ELSE None

\* A command was executed, with its outcome.
Ran(st, argv, ok) ==
    [st EXCEPT !.commands = Append(@, [argv |-> argv, ok |-> ok])]

\* Lines 132-136: SystemExit caught.
ExitCaught(st, name, cfg) ==
    [st EXCEPT !.errors = Append(@,
        name \o ": failed with exit code " \o ToString(GitFailureCode)
             \o " while tagging v" \o Get(cfg, "version") \o " on "
             \o Get(cfg, "remote"))]

\* Lines 138-139: another exception caught.
ErrorCaught(st, name) ==
    [st EXCEPT !.errors = Append(@, name \o ": unexpected error")]

\* Lines 116-130: the dry-run note or the push.
TagPush(st, name, cfg, remote, tag_name, commit, dry_run, o) ==
    IF dry_run
    THEN [st EXCEPT !.tagged = Append(@, name \o ":" \o tag_name)]
    ELSE IF o.push
    THEN [Ran(st, <<"git", "push", remote,
                    commit \o ":refs/tags/" \o tag_name, "-f">>, TRUE)
             EXCEPT !.remote_tags[remote][tag_name] = LightTag(commit),
                    !.tagged = Append(@, name \o ":" \o tag_name)]
    ELSE ExitCaught(Ran(st, <<"git", "push", remote,
                              commit \o ":refs/tags/" \o tag_name, "-f">>, FALSE),
                    name, cfg)

\* Lines 91-114: the look-up of the tag on the remote.
TagLookup(st, name, cfg, remote, tag_name, commit, dry_run, o) ==
    IF Truthy(get_remote_tag_hash(st.remote_tags[remote][tag_name], tag_name, o.ls))
    THEN Ran(st, <<"git", "ls-remote", "--tags", remote, tag_name>>, o.ls)
    ELSE TagPush(Ran(st, <<"git", "ls-remote", "--tags", remote, tag_name>>, o.ls),
                 name, cfg, remote, tag_name, commit, dry_run, o)

\* Lines 83-85: compute_subtree_split.
TagSplit(st, name, cfg, remote, branch, commit, dry_run, o) ==
    IF o.split
    THEN TagLookup(Ran(st, <<"git", "subtree", "split", "--prefix",
                             "templates/" \o name, branch>>, TRUE),
                   name, cfg, remote, "v" \o Get(cfg, "version"), commit,
                   dry_run, o)
    ELSE ErrorCaught(Ran(st, <<"git", "subtree", "split", "--prefix",
                               "templates/" \o name, branch>>, FALSE), name)

\* Line 81: git fetch.
TagFetch(st, name, cfg, remote, branch, commit, dry_run, o) ==
    IF o.fetch
    THEN TagSplit(Ran(st, <<"git", "fetch", remote, branch>>, TRUE),
                  name, cfg, remote, branch, commit, dry_run, o)
    ELSE ExitCaught(Ran(st, <<"git", "fetch", remote, branch>>, FALSE), name, cfg)

\* ensure_remote (line 77), then the rest of the loop body.
TagEnsureRemote(st, name, cfg, remote, url, branch, commit, dry_run, o) ==
    IF remote \in st.local_remotes
    THEN TagFetch(Ran(st, <<"git", "remote", "get-url", remote>>, TRUE),
                  name, cfg, remote, branch, commit, dry_run, o)
    ELSE IF o.add
    THEN TagFetch(
             [Ran(Ran(st, <<"git", "remote", "get-url", remote>>, FALSE),
                  <<"git", "remote", "add", remote, url>>, TRUE)
                 EXCEPT !.local_remotes = @ \cup {remote}],
             name, cfg, remote, branch, commit, dry_run, o)
    ELSE ExitCaught(Ran(Ran(st, <<"git", "remote", "get-url", remote>>, FALSE),
                        <<"git", "remote", "add", remote, url>>, FALSE),
                    name, cfg)

\* Lines 60-71: the body of the loop for one item of the mapping.
TagTemplate(st, name, cfg, commit, dry_run, o) ==
    IF ~Truthy(Get(cfg, "version")) THEN st
    ELSE IF ~Truthy(Get(cfg, "remote")) \/ ~Truthy(Get(cfg, "url")) THEN st
    ELSE TagEnsureRemote(st, name, cfg, Get(cfg, "remote"), Get(cfg, "url"),
                         (IF "branch" \in DOMAIN cfg THEN cfg["branch"] ELSE "main"),
                         commit, dry_run, o)

\* Which of the commands of one loop body succeed.
Outcomes == [add : BOOLEAN, fetch : BOOLEAN, split : BOOLEAN, ls : BOOLEAN,
             push : BOOLEAN]

AllSucceed == [add |-> TRUE, fetch |-> TRUE, split |-> TRUE, ls |-> TRUE,
               push |-> TRUE]

TagState ==
    [remote_tags |-> t_remote_tags, local_remotes |-> t_local_remotes,
     commands |-> t_commands, tagged |-> t_tagged, errors |-> t_errors]

\* tag_versions_cmd, cli.py lines 127-140: line 135 calls run_tag_versions,
\* whose only parameter is dry_run, with a positional argument and dry_run
\* by keyword, which raises TypeError before anything is done.
TagVersionsCmd ==
    /\ pc = "tag_cmd"
    /\ pc' = "tag_cmd_raised"
    /\ UNCHANGED <<tagVars, syncData, tagRest>>

\* tag_all_versions: one pass of the loop of line 59.
TagNextTemplate ==
    /\ pc = "tag"
    /\ t_index < Len(t_mapping)
    /\ \E o \in Outcomes :
          LET item == t_mapping[t_index + 1]
              st == TagTemplate(TagState, item[1], item[2], t_split[item[1]],
                                t_dry_run, o)
          IN  /\ t_remote_tags' = st.remote_tags
              /\ t_local_remotes' = st.local_remotes
              /\ t_commands' = st.commands
              /\ t_tagged' = st.tagged
              /\ t_errors' = st.errors
    /\ t_index' = t_index + 1
    /\ UNCHANGED <<pc, t_mapping, t_dry_run, t_split, syncData, tagRest>>

\* tag_all_versions, lines 141-150: the loop is over; tagged is returned.
TagReturn ==
    /\ pc = "tag"
    /\ t_index = Len(t_mapping)
    /\ pc' = "tag_returned"
    /\ UNCHANGED <<tagVars, syncData, tagRest>>

\* Bounds and inputs of the tagging.
MaxTemplates == 2
TagRemotes == {"r1", "r2"}
TagNames == {"v1.2.3"}

TagConfigs ==
    { [remote |-> r, url |-> u, branch |-> "main", version |-> v] :
        r \in {None, "r1"}, u \in {None, "u1"}, v \in {None, "", "1.2.3"} }
    \cup { [remote |-> "r2", url |-> "u2", version |-> "1.2.3"],
           [remote |-> "r1", url |-> "u1", version |-> "1.2.3"] }

RemoteTagStates ==
    {NoTag, LightTag("aaa"), LightTag("bbb"), AnnotatedTag("ttt", "aaa")}

InitTag ==
    /\ pc \in {"tag_cmd", "tag"}
    /\ resolverIdle
    /\ validatorIdle
    /\ comparatorIdle
    /\ driverIdle
    /\ tagRestIdle
    /\ \E c1, c2 \in TagConfigs, n \in 1..MaxTemplates :
          t_mapping = SubSeq(<<<<"t1", c1>>, <<"t2", c2>>>>, 1, n)
    /\ Len(t_mapping) = 2 => "branch" \notin DOMAIN t_mapping[2][2]
    /\ Len(t_mapping) = 2 => t_mapping[1][2].version = "1.2.3"
    /\ t_dry_run \in BOOLEAN
    /\ t_split = ("t1" :> "aaa") @@ ("t2" :> "bbb")
    /\ t_index = 0
    /\ t_remote_tags \in [TagRemotes -> [TagNames -> RemoteTagStates]]
    /\ t_remote_tags["r2"]["v1.2.3"] \in {NoTag, LightTag("aaa")}
    /\ t_local_remotes \in SUBSET {"r1"}
    /\ t_commands = <<>>
    /\ t_tagged = <<>>
    /\ t_errors = <<>>

NextTag ==
    \/ TagVersionsCmd
    \/ TagNextTemplate
    \/ TagReturn

SpecTag == InitTag /\ [][NextTag]_vars

----------------------------------------------------------------------------
(* Claims about the tagging                                                *)

\* The commands the step just taken has executed.
C15_NewCommands ==
    SubSeq(t_commands', Len(t_commands) + 1, Len(t_commands'))

C15_IsPush(cmd) == cmd.argv[2] = "push"

\* What one pass of the loop of tag_all_versions may do.
C15_Pass ==
    (pc = "tag" /\ t_index' = t_index + 1) =>
        LET name == t_mapping[t_index + 1][1]
            cfg == t_mapping[t_index + 1][2]
            version == Get(cfg, "version")
            new == C15_NewCommands
        IN  \* a tag that is on a remote stays as it is
            /\ \A r \in TagRemotes, tag \in TagNames :
                  t_remote_tags[r][tag] # NoTag =>
                      t_remote_tags'[r][tag] = t_remote_tags[r][tag]
            \* a push is for a template with version, remote and url, names
            \* v<version> and the split commit, and finds no such tag
            /\ \A i \in DOMAIN new : C15_IsPush(new[i]) =>
                  /\ Truthy(version) /\ Truthy(Get(cfg, "remote"))
                  /\ Truthy(Get(cfg, "url"))
                  /\ new[i].argv[3] = Get(cfg, "remote")
                  /\ new[i].argv[4]
                        = t_split[name] \o ":refs/tags/v" \o version
                  /\ t_remote_tags[Get(cfg, "remote")]["v" \o version] = NoTag
            \* no version, no git command
            /\ ~Truthy(version) => new = <<>>

\* C15 (as claimed): tag_all_versions never changes an existing remote tag;
\* it pushes v<version> at the subtree-split commit only when the remote has
\* no tag of that name, issues no push when the tag exists, and runs no git
\* command for a template without a version.
C15_ExistingTagsKept == [][C15_Pass]_vars

\* tagged after a run of tag_all_versions over the mapping in which every
\* command succeeds.
RECURSIVE C16_TaggedBy(_, _, _)
C16_TaggedBy(st, mapping, dry_run) ==
    IF mapping = <<>> THEN st.tagged
    ELSE C16_TaggedBy(TagTemplate(st, Head(mapping)[1], Head(mapping)[2],
                                  t_split[Head(mapping)[1]], dry_run, AllSucceed),
                      Tail(mapping), dry_run)

\* A command that fetches, pushes or changes the remotes of the clone.
C16_Changes(cmd) ==
    \/ cmd.argv[2] \in {"fetch", "push"}
    \/ cmd.argv[2] = "remote" /\ cmd.argv[3] = "add"

C16_NoneFailed ==
    \A i \in DOMAIN t_commands :
        t_commands[i].ok \/ t_commands[i].argv[3] = "get-url"

\* C16 (as claimed): in a dry run no fetch, no push and no command that
\* changes the local remotes or a remote is executed, and the list returned
\* names every tag a real run would create.
C16_DryRunOnlyPrints ==
    t_dry_run =>
        /\ \A i \in DOMAIN t_commands : ~C16_Changes(t_commands[i])
        /\ pc # "tag_cmd_raised"
        /\ (pc = "tag_returned" /\ C16_NoneFailed) =>
              \A i \in DOMAIN C16_TaggedBy(
                           [remote_tags |-> t_remote_tags, local_remotes |-> {},
                            commands |-> <<>>, tagged |-> <<>>, errors |-> <<>>],
                           t_mapping, FALSE) :
                  \E k \in DOMAIN t_tagged :
                      t_tagged[k] = C16_TaggedBy(
                           [remote_tags |-> t_remote_tags, local_remotes |-> {},
                            commands |-> <<>>, tagged |-> <<>>, errors |-> <<>>],
                           t_mapping, FALSE)[i]

----------------------------------------------------------------------------
(* coding_agent/adapters/claude_code/templates/search.py: get_template     *)

\* lines[i:j] of Python for any integers i and j.
PySlice(lines, i, j) ==
    SubSeq(lines, SliceBound(Len(lines), i) + 1, SliceBound(Len(lines), j))

\* f"{i:6}": the number right-aligned in 6 characters.
RECURSIVE PadLeft(_, _)
PadLeft(s, width) == IF Len(s) >= width THEN s ELSE PadLeft(" " \o s, width)

\* Lines 241-244: the numbered lines.
NumberedLines(lines_to_show, line_offset) ==
    [k \in 1..Len(lines_to_show) |->
        PadLeft(ToString(line_offset + k), 6) \o "| " \o lines_to_show[k]]

\* Lines 236-252, given the selected lines and the offset of the first.
FormatTemplate(lines, line_offset, max_lines) ==
    LET lines_to_show == PySlice(lines, 0, max_lines)
        omitted_count == Len(lines) - Len(lines_to_show)
        shown == JoinLines(NumberedLines(lines_to_show, line_offset))
    IN  IF omitted_count > 0
        THEN shown \o "\n// " \o ToString(omitted_count) \o " more line(s) omitted"
        ELSE shown

\* Lines 217-234: the lines read and the range selected.
SelectedRange(lines, start_line, end_line, max_lines) ==
    IF start_line # <<>> \/ end_line # <<>>
    THEN LET total_lines == Len(lines)
             start_idx == Max(0, Min((IF start_line # <<>>
                                      THEN start_line[1] - 1 ELSE 0), total_lines))
             end_idx == Max(start_idx, Min((IF end_line # <<>>
                                            THEN end_line[1] ELSE total_lines),
                                           total_lines))
         IN  FormatTemplate(PySlice(lines, start_idx, end_idx), start_idx, max_lines)
    ELSE FormatTemplate(lines, 0, max_lines)

\* get_template
get_template(file, start_line, end_line, max_lines) ==
    IF file = NoFile THEN Raised
    ELSE SelectedRange(splitlines(ReadText(file)), start_line, end_line, max_lines)

\* Bounds and inputs of get_template.
MaxLineArgument == 6
MaxNegativeLineArgument == 2

TemplateFiles ==
    { "", "l1\n", "l1\nl2", "l1\r\nl2\n\nl4\n", "l1\nl2\nl3\nl4\n" }

OptionalLine ==
    {<<>>} \cup { <<k>> : k \in (-MaxNegativeLineArgument)..MaxLineArgument }

GetTemplate ==
    /\ pc = "get"
    /\ pc' = "got"
    /\ g_result' = get_template(g_file, g_start_line, g_end_line, g_max_lines)
    /\ UNCHANGED <<g_file, g_start_line, g_end_line, g_max_lines, syncData,
                   templateRest>>

InitTemplate ==
    /\ pc = "get"
    /\ resolverIdle
    /\ validatorIdle
    /\ comparatorIdle
    /\ driverIdle
    /\ templateRestIdle
    /\ g_file \in {NoFile} \cup TemplateFiles
    /\ g_start_line \in OptionalLine
    /\ g_end_line \in OptionalLine
    /\ g_max_lines \in (-MaxNegativeLineArgument)..MaxLineArgument
    /\ g_result = Pending

NextTemplate == GetTemplate

SpecTemplate == InitTemplate /\ [][NextTemplate]_vars

----------------------------------------------------------------------------
(* Claims about get_template                                               *)

\* The lines of the file, as the reader sees them.
C17_FileLines == splitlines(ReadText(g_file))

\* First and last selected line number: max(1, start_line), min(n, end_line).
C17_First == IF g_start_line = <<>> THEN 1 ELSE Max(1, g_start_line[1])
C17_Last ==
    IF g_end_line = <<>> THEN Len(C17_FileLines)
    ELSE Min(Len(C17_FileLines), g_end_line[1])

\* The numbers of the lines selected, and of those shown when at most
\* `most` of them are.
C17_Selected == { i \in 1..Len(C17_FileLines) : C17_First <= i /\ i <= C17_Last }
C17_Shown(most) == { i \in C17_Selected : i - C17_First + 1 <= most }

\* The text of the claim for the lines numbered in `shown`.
RECURSIVE C17_Text(_, _)
C17_Text(shown, from) ==
    IF from \notin shown THEN ""
    ELSE (IF from - 1 \in shown THEN "\n" ELSE "")
         \o PadLeft(ToString(from), 6) \o "| " \o C17_FileLines[from]
         \o C17_Text(shown, from + 1)

C17_Expected(shown) ==
    LET k == Cardinality(C17_Selected) - Cardinality(shown)
    IN  C17_Text(shown, C17_First)
        \o (IF k > 0 THEN "\n// " \o ToString(k) \o " more line(s) omitted" ELSE "")

\* C17 (as claimed): the lines returned are the file lines numbered from
\* max(1, start_line) to min(n, end_line), cut to the first max_lines, each
\* with its number right-aligned in 6 characters, and the omission notice
\* is there exactly when k = selected - shown > 0; for any max_lines.
C17_SelectedLinesCut ==
    (pc = "got" /\ g_file # NoFile) =>
        g_result = C17_Expected(C17_Shown(g_max_lines))

----------------------------------------------------------------------------
(* mcp/search.py: _find_snippets, _merge_line_entries and                  *)
(* format_results_pretty                                                   *)

UpperLetters == <<"B", "F", "O", "P", "Y">>
LowerLetters == <<"b", "f", "o", "p", "y">>

\* str.lower()
RECURSIVE Lower(_)
Lower(s) ==
    IF s = "" THEN ""
    ELSE LET c == SubSeq(s, 1, 1)
         IN  (IF \E k \in DOMAIN UpperLetters : UpperLetters[k] = c
              THEN LowerLetters[CHOOSE k \in DOMAIN UpperLetters : UpperLetters[k] = c]
              ELSE c)
             \o Lower(SubSeq(s, 2, Len(s)))

\* [line_text.rstrip("\n") for line_text in lines]
StripNewlines(lines) == [k \in DOMAIN lines |-> rstrip_newlines(lines[k])]

\* Lines 122-123: some query token is a substring of the lowercased line.
LineMatches(line, query_tokens) ==
    \E k \in DOMAIN query_tokens : Contains(Lower(line), query_tokens[k])

\* Lines 124-134: the Match made for line idx.
MatchAt(lines, idx, context_lines) ==
    LET start == Max(1, idx - context_lines)
        end == Min(Len(lines), idx + context_lines)
    IN  [line |-> idx,
         text |-> rstrip_newlines(lines[idx]),
         before |-> StripNewlines(PySlice(lines, start - 1, idx - 1)),
         after |-> StripNewlines(PySlice(lines, idx, end))]

\* _find_snippets: the loop from line idx on, with the matches so far.
RECURSIVE FindFromLine(_, _, _, _, _, _)
FindFromLine(lines, query_tokens, max_matches, context_lines, idx, matches) ==
    IF idx > Len(lines) THEN matches
    ELSE IF LineMatches(lines[idx], query_tokens)
            /\ rstrip_newlines(lines[idx]) # ""
            /\ strip(rstrip_newlines(lines[idx])) # ""
    THEN IF Len(matches) + 1 >= max_matches
         THEN Append(matches, MatchAt(lines, idx, context_lines))
         ELSE FindFromLine(lines, query_tokens, max_matches, context_lines,
                           idx + 1,
                           Append(matches, MatchAt(lines, idx, context_lines)))
    ELSE FindFromLine(lines, query_tokens, max_matches, context_lines,
                      idx + 1, matches)

\* The default of the parameter max_matches.
DefaultMaxMatches == 3

_find_snippets(lines, query_tokens, context_lines) ==
    FindFromLine(lines, query_tokens, DefaultMaxMatches, context_lines, 1, <<>>)

\* line_entries[ln] = entry unless ln is already a key.
SetDefault(line_entries, ln, entry) ==
    IF ln \in DOMAIN line_entries THEN line_entries
    ELSE line_entries @@ (ln :> entry)

\* Lines 284-287 and 293-296: the context lines numbered from `first` on.
RECURSIVE AddContext(_, _, _)
AddContext(line_entries, texts, first) ==
    IF texts = <<>> THEN line_entries
    ELSE AddContext(SetDefault(line_entries, first,
                               [text |-> Head(texts), is_match |-> FALSE]),
                    Tail(texts), first + 1)

\* Lines 289-291 with the entry written only for a line that has none: a
\* line already entered as context stays unmarked.
AddMatchedLineIfAbsent(line_entries, m) ==
    IF m.line \notin DOMAIN line_entries
    THEN line_entries @@ (m.line :> [text |-> m.text, is_match |-> TRUE])
    ELSE line_entries

\* Lines 289-291: the matched line.
AddMatchedLine(line_entries, m) ==
    IF m.line \notin DOMAIN line_entries \/ ~line_entries[m.line].is_match
    THEN [ln \in DOMAIN line_entries \cup {m.line} |->
            IF ln = m.line THEN [text |-> m.text, is_match |-> TRUE]
            ELSE line_entries[ln]]
    ELSE line_entries

\* _merge_line_entries: the loop over the matches.
RECURSIVE MergeFrom(_, _)
MergeFrom(line_entries, matches) ==
    IF matches = <<>> THEN line_entries
    ELSE LET m == Head(matches)
         IN  MergeFrom(
                 AddContext(
                     AddMatchedLine(
                         AddContext(line_entries, m.before, m.line - Len(m.before)),
                         m),
                     m.after, m.line + 1),
                 Tail(matches))

_merge_line_entries(matches) == MergeFrom([ln \in {} |-> 0], matches)

\* sorted(keys)
RECURSIVE Sorted(_)
Sorted(keys) ==
    IF keys = {} THEN <<>>
    ELSE LET least == CHOOSE k \in keys : \A other \in keys : k <= other
         IN  <<least>> \o Sorted(keys \ {least})

\* Lines 309-312: the lines of one block.
BlockLines(line_entries, order) ==
    [k \in DOMAIN order |->
        "  " \o PadLeft(ToString(order[k]), 5)
             \o (IF line_entries[order[k]].is_match THEN "*" ELSE " ")
             \o " " \o line_entries[order[k]].text]

\* The header of the block of the one result: its path and score.
ResultHeader == "templates/t/a.txt (score 2.5)"

\* format_results_pretty on one result with the given matches.
BlockOf(line_entries) ==
    JoinLines(<<ResultHeader>>
              \o BlockLines(line_entries, Sorted(DOMAIN line_entries)))

format_results_pretty(matches) == BlockOf(_merge_line_entries(matches))

\* Bounds and inputs of the search.
MaxSearchLines == 4
MaxContextLines == 2
SearchLineAlphabet == {"foo", "Foo ob", "", "bb"}
QueryTokens == {<<"foo">>, <<"ob", "foo">>}

\* The orders a list can be put in.
ListOrders(list) ==
    { [k \in DOMAIN list |-> list[f[k]]] :
        f \in { g \in [DOMAIN list -> DOMAIN list] :
                    \A i, j \in DOMAIN list : g[i] = g[j] => i = j } }

\* search_templates_impl, line 258: the snippets of the file.
FindSnippets ==
    /\ pc = "find"
    /\ pc' = "format"
    /\ s_matches' = _find_snippets(s_lines, s_query_tokens, s_context_lines)
    /\ UNCHANGED <<s_lines, s_query_tokens, s_context_lines, s_output,
                   syncData, searchRest>>

\* format_results_pretty on the matches, in the order found or in another.
FormatResultsPretty ==
    /\ pc = "format"
    /\ pc' = "formatted"
    /\ s_matches' \in ListOrders(s_matches)
    /\ s_output' = format_results_pretty(s_matches')
    /\ UNCHANGED <<s_lines, s_query_tokens, s_context_lines, syncData,
                   searchRest>>

InitSearch ==
    /\ pc = "find"
    /\ resolverIdle
    /\ validatorIdle
    /\ comparatorIdle
    /\ driverIdle
    /\ searchRestIdle
    /\ s_lines \in UNION { [1..n -> SearchLineAlphabet] : n \in 0..MaxSearchLines }
    /\ s_query_tokens \in QueryTokens
    /\ s_context_lines \in 0..MaxContextLines
    /\ s_matches = <<>>
    /\ s_output = Pending

NextSearch ==
    \/ FindSnippets
    \/ FormatResultsPretty

SpecSearch == InitSearch /\ [][NextSearch]_vars

----------------------------------------------------------------------------
(* Claims about the search output                                          *)

\* The lines of the block under its header, and what each one shows.
C18_Rows == Tail(splitlines(s_output))
C18_Number(row) == ParseInt(strip(SubSeq(row, 3, 7)))
C18_Marked(row) == SubSeq(row, 8, 8) = "*"
C18_TextOf(row) == SubSeq(row, 10, Len(row))

\* Numbers ascending, so none twice; marked exactly the matched lines.
C18_Merged ==
    /\ \A i, j \in DOMAIN C18_Rows :
          i < j => C18_Number(C18_Rows[i]) < C18_Number(C18_Rows[j])
    /\ \A i \in DOMAIN C18_Rows :
          C18_Marked(C18_Rows[i])
              <=> \E k \in DOMAIN s_matches :
                      s_matches[k].line = C18_Number(C18_Rows[i])

\* C18 (as claimed): in a block every line number appears once, ascending;
\* a line is marked exactly when it is the matched line of a match, in any
\* order of the matches; every marked line is non-blank and contains a
\* query token as a substring.
C18_MarkedContainToken ==
    pc = "formatted" =>
        /\ C18_Merged
        /\ \A i \in DOMAIN C18_Rows : C18_Marked(C18_Rows[i]) =>
              /\ strip(C18_TextOf(C18_Rows[i])) # ""
              /\ \E k \in DOMAIN s_query_tokens :
                    Contains(C18_TextOf(C18_Rows[i]), s_query_tokens[k])

\* C18, amended: as above, and every marked line is non-blank and its
\* lowercased text contains a query token as a substring.
C18_MarkedContainTokenIgnoringCase ==
    pc = "formatted" =>
        /\ C18_Merged
        /\ \A i \in DOMAIN C18_Rows : C18_Marked(C18_Rows[i]) =>
              /\ strip(C18_TextOf(C18_Rows[i])) # ""
              /\ \E k \in DOMAIN s_query_tokens :
                    Contains(Lower(C18_TextOf(C18_Rows[i])), s_query_tokens[k])

\* Two matches, the later one first, the earlier one inside its context,
\* and an unmarked line in the block.
C18_Witness ==
    /\ pc = "formatted"
    /\ Len(s_matches) >= 2
    /\ s_matches[1].line > s_matches[2].line
    /\ s_matches[1].line - Len(s_matches[1].before) <= s_matches[2].line
    /\ \E i, j \in DOMAIN C18_Rows :
          /\ C18_Number(C18_Rows[i]) = s_matches[2].line
          /\ C18_Marked(C18_Rows[i])
          /\ ~C18_Marked(C18_Rows[j])

----------------------------------------------------------------------------
(* cli.py: all_cmd. The subcommand, run in-process by cli.main with        *)
(* standalone_mode=False, returns, raises SystemExit with an integer code  *)
(* (utils.run, run_git_command) or with a message (mirror_cmd), or raises  *)
(* another exception (subprocess.run on a missing directory or program).   *)

Returns == [kind |-> "returns", code |-> 0]
ExitsWith(code) == [kind |-> "exit_int", code |-> code]
ExitsWithMessage == [kind |-> "exit_message", code |-> 0]
RaisesOther == [kind |-> "raises", code |-> 0]

\* Line 357: int(e.code) if isinstance(e.code, int) else 1
ExitCodeOf(outcome) == IF outcome.kind = "exit_int" THEN outcome.code ELSE 1

\* Exit status of the interpreter when an exception other than SystemExit
\* leaves the command.
UncaughtExitCode == 1

\* all_cmd, lines 333-337: no template is configured.
AllNoTemplates ==
    /\ pc = "all"
    /\ a_status = "running"
    /\ a_templates = <<>>
    /\ a_status' = "returned"
    /\ a_code' = 0
    /\ UNCHANGED <<pc, a_templates, a_outcomes, a_continue, a_processed,
                   a_failed, syncData, allRest>>

\* all_cmd, lines 346-377: one pass of the loop.
AllNextTemplate ==
    /\ pc = "all"
    /\ a_status = "running"
    /\ Len(a_processed) < Len(a_templates)
    /\ LET template_name == a_templates[Len(a_processed) + 1]
           outcome == a_outcomes[Len(a_processed) + 1]
       IN  /\ a_processed' = Append(a_processed, template_name)
           /\ IF outcome.kind = "returns"
              THEN UNCHANGED <<a_failed, a_status, a_code>>
              ELSE IF outcome.kind = "raises"
              THEN /\ a_status' = "raised"
                   /\ a_code' = UncaughtExitCode
                   /\ UNCHANGED a_failed
              ELSE /\ a_failed' = Append(a_failed, template_name)
                   /\ IF ~a_continue
                      THEN a_status' = "exited" /\ a_code' = ExitCodeOf(outcome)
                      ELSE UNCHANGED <<a_status, a_code>>
    /\ UNCHANGED <<pc, a_templates, a_outcomes, a_continue, syncData, allRest>>

\* all_cmd, lines 379-395: the summary after the loop.
AllSummary ==
    /\ pc = "all"
    /\ a_status = "running"
    /\ a_templates # <<>>
    /\ Len(a_processed) = Len(a_templates)
    /\ IF a_failed # <<>>
       THEN a_status' = "exited" /\ a_code' = 1
       ELSE a_status' = "returned" /\ a_code' = 0
    /\ UNCHANGED <<pc, a_templates, a_outcomes, a_continue, a_processed,
                   a_failed, syncData, allRest>>

\* Bounds and inputs of all_cmd.
MaxAllTemplates == 3
AllTemplateNames == <<"t1", "t2", "t3">>
SubcommandOutcomes ==
    {Returns, ExitsWith(1), ExitsWith(2), ExitsWithMessage, RaisesOther}

InitAll ==
    /\ pc = "all"
    /\ resolverIdle
    /\ validatorIdle
    /\ comparatorIdle
    /\ driverIdle
    /\ allRestIdle
    /\ a_templates \in { SubSeq(AllTemplateNames, 1, n) : n \in 0..MaxAllTemplates }
    /\ a_outcomes \in [DOMAIN a_templates -> SubcommandOutcomes]
    /\ a_continue \in BOOLEAN
    /\ a_processed = <<>>
    /\ a_failed = <<>>
    /\ a_status = "running"
    /\ a_code = 0

NextAll ==
    \/ AllNoTemplates
    \/ AllNextTemplate
    \/ AllSummary

SpecAll == InitAll /\ [][NextAll]_vars

----------------------------------------------------------------------------
(* Claims about all_cmd                                                    *)

\* The templates whose subcommand fails.
C19_Failing == { i \in DOMAIN a_outcomes : a_outcomes[i].kind # "returns" }

C19_FirstFailing == CHOOSE i \in C19_Failing : \A k \in C19_Failing : i <= k

\* C19 (as claimed): the templates are processed in mapping order; without
\* --continue-on-error the run stops at the first failing template and the
\* process exits with its exit code (1 when the code is not an integer);
\* with --continue-on-error every template is processed and the process
\* exits with code 1 exactly when some template failed.
C19_StopOrContinue ==
    /\ a_processed = SubSeq(a_templates, 1, Len(a_processed))
    /\ (a_status \notin {"idle", "running"} /\ ~a_continue /\ C19_Failing # {}) =>
          /\ a_processed = SubSeq(a_templates, 1, C19_FirstFailing)
          /\ a_code = ExitCodeOf(a_outcomes[C19_FirstFailing])
    /\ (a_status \notin {"idle", "running"} /\ a_continue) =>
          /\ a_processed = a_templates
          /\ a_code = 1 <=> C19_Failing # {}

----------------------------------------------------------------------------
(* Claims about the insert edits of the resolver                           *)

\* The insert opcode the walk is about to handle, and where its lines go in
\* the edited list: after the first C20_Point lines.
C20_Op == opcodes[op_index + 1]
C20_Point ==
    SliceBound(Len(walk.new_template_lines),
               tpl_index_from_expected(exp_to_tpl, walk.new_template_lines,
                                       walk.delta_offset, C20_Op.i1))

\* The line before the insertion point or the line at it has a marker.
C20_Guarded ==
    LET lines == walk.new_template_lines
    IN  \/ C20_Point >= 1 /\ HasMarker(lines[C20_Point])
        \/ C20_Point < Len(lines) /\ HasMarker(lines[C20_Point + 1])

C20_InsertStep ==
    (pc = "a_walk" /\ op_index' = op_index + 1 /\ C20_Op.tag = "insert") =>
        LET lines == walk.new_template_lines
            inserted == Slice(splitlines(actual_content), C20_Op.j1, C20_Op.j2)
        IN  IF C20_Guarded
            THEN walk' = walk
            ELSE /\ walk'.new_template_lines
                       = SubSeq(lines, 1, C20_Point) \o inserted
                           \o SubSeq(lines, C20_Point + 1, Len(lines))
                 /\ walk'.delta_offset = walk.delta_offset + Len(inserted)
                 /\ walk'.changes_made

\* C20: an insert is applied exactly when neither the line before the
\* insertion point nor the line at it has a templating marker; a skipped
\* insert leaves the edited line list, the running offset and the change
\* flag as they were.
C20_InsertOnlyInPlainContext == [][C20_InsertStep]_vars

\* The walk has just skipped an insert next to a marker line as its first
\* edit, having changed nothing.
C20_SkippedInsert ==
    /\ pc = "a_walk" /\ op_index >= 1
    /\ opcodes[op_index].tag = "insert"
    /\ ~walk.changes_made
    /\ walk.new_template_lines = splitlines(ReadText(template_file))
    /\ \E t \in 1..Len(walk.new_template_lines) :
            HasMarker(walk.new_template_lines[t])

\* The walk has just applied an insert to a template that has a marker line
\* elsewhere.
C20_AppliedInsert ==
    /\ pc = "a_walk" /\ op_index >= 1
    /\ opcodes[op_index].tag = "insert"
    /\ walk.changes_made
    /\ walk.delta_offset > 0
    /\ \E t \in 1..Len(walk.new_template_lines) :
            HasMarker(walk.new_template_lines[t])

----------------------------------------------------------------------------
(* Claims about the indices of the edit walk                               *)

\* The template indices the walk computes for the opcode it handles next.
C21_Start ==
    tpl_index_from_expected(exp_to_tpl, walk.new_template_lines,
                            walk.delta_offset, opcodes[op_index + 1].i1)
C21_End ==
    tpl_index_from_expected(exp_to_tpl, walk.new_template_lines,
                            walk.delta_offset, opcodes[op_index + 1].i2)

\* C21: during the walk the running offset is the length of the edited
\* line list minus the length of the original template, and the template
\* indices of every edit satisfy 0 <= start <= end <= current length.
C21_OffsetAndIndicesInRange ==
    pc = "a_walk" =>
        /\ walk.delta_offset
              = Len(walk.new_template_lines)
                  - Len(splitlines(ReadText(template_file)))
        /\ (op_index < Len(opcodes) /\ opcodes[op_index + 1].tag # "equal") =>
              /\ 0 <= C21_Start
              /\ C21_Start <= C21_End
              /\ C21_End <= Len(walk.new_template_lines)

\* The walk has applied an edit that changed the length of the list and is
\* about to handle another edit.
C21_Witness ==
    /\ pc = "a_walk"
    /\ walk.changes_made
    /\ walk.delta_offset # 0
    /\ op_index < Len(opcodes)
    /\ opcodes[op_index + 1].tag # "equal"

----------------------------------------------------------------------------
(* templates/copier_integration.py: parse_template_variables               *)
(* The answers file is a mapping from keys to values. A question is a pair *)
(* <<name, config>>; copier keeps the keys of copier.yml that begin with   *)
(* an underscore as settings, so no question name begins with one.        *)

\* render_jinja_string for the expressions of the defaults: {{name}} is
\* the value of the variable, empty when it is undefined; {{name[0]}} is
\* the first character of the value and raises when the variable is
\* undefined; an unclosed {{ is a syntax error.
RECURSIVE RenderDefaultFrom(_, _, _)
RenderDefaultFrom(s, i, variables) ==
    IF i > Len(s) THEN ""
    ELSE LET two == SubSeq(s, i, Min(i + 1, Len(s)))
             e == FindFrom(s, "}}", i + 2)
             inner == strip(SubSeq(s, i + 2, e - 1))
             subscript == EndsWith(inner, "[0]")
             name == IF subscript THEN SubSeq(inner, 1, Len(inner) - 3)
                     ELSE inner
             value == IF name \in DOMAIN variables THEN variables[name] ELSE ""
             out == IF subscript THEN SubSeq(value, 1, Min(1, Len(value)))
                    ELSE value
         IN  IF two = "{{"
             THEN IF e = 0 \/ (subscript /\ name \notin DOMAIN variables)
                  THEN RenderError
                  ELSE LET rest == RenderDefaultFrom(s, e + 2, variables)
                       IN  IF rest = RenderError THEN RenderError
                           ELSE out \o rest
             ELSE LET rest == RenderDefaultFrom(s, i + 1, variables)
                  IN  IF rest = RenderError THEN RenderError
                      ELSE SubSeq(s, i, i) \o rest

render_jinja_string(template_string, variables) ==
    RenderDefaultFrom(template_string, 1, variables)

\* Line 57: the answers without copier's metadata.
user_answers(answers_data) ==
    [k \in { key \in DOMAIN answers_data : ~StartsWith(key, "_") }
        |-> answers_data[k]]

\* A mutant of NeedsDefault: a default is evaluated for a variable that has
\* a value already.
NeedsDefaultAlways(result_dict, question_name, question_config) ==
    question_config.has_default

\* Line 70: the question has no value yet and has a default.
NeedsDefault(result_dict, question_name, question_config) ==
    question_name \notin DOMAIN result_dict /\ question_config.has_default

\* Line 66.
max_iterations == 10

\* Lines 48-63: the answers are read and the template is loaded; either
\* can raise. Then the first pass begins.
ParseStart ==
    /\ pc = "parse"
    /\ \E load_ok \in BOOLEAN :
        IF load_ok
        THEN /\ p_result' = user_answers(p_answers)
             /\ p_pass' = 1
             /\ pc' = "parse_question"
        ELSE /\ pc' = "parse_raised"
             /\ UNCHANGED <<p_result, p_pass>>
    /\ UNCHANGED <<p_answers, p_questions, p_index, p_changed, syncData,
                   parseRest>>

\* Lines 69-85: one question of a pass.
ParseQuestion ==
    /\ pc = "parse_question"
    /\ p_index < Len(p_questions)
    /\ LET question_name == p_questions[p_index + 1][1]
           question_config == p_questions[p_index + 1][2]
           default_value == question_config.default
           rendered == render_jinja_string(default_value, p_result)
       IN  IF ~NeedsDefault(p_result, question_name, question_config)
           THEN UNCHANGED <<p_result, p_changed>>
           ELSE IF Contains(default_value, "{{")
           THEN IF rendered = RenderError
                THEN UNCHANGED <<p_result, p_changed>>
                ELSE /\ p_result' = SetItem(p_result, question_name, rendered)
                     /\ p_changed' = TRUE
           ELSE /\ p_result' = SetItem(p_result, question_name, default_value)
                /\ p_changed' = TRUE
    /\ p_index' = p_index + 1
    /\ UNCHANGED <<pc, p_answers, p_questions, p_pass, syncData, parseRest>>

\* Lines 67-68 and 87-90: the end of a pass. The loop is left when nothing
\* changed or when the passes are used up; otherwise the next pass begins.
ParsePassEnd ==
    /\ pc = "parse_question"
    /\ p_index = Len(p_questions)
    /\ IF ~p_changed \/ p_pass = max_iterations
       THEN /\ pc' = "parse_returned"
            /\ UNCHANGED <<p_pass, p_index, p_changed>>
       ELSE /\ p_pass' = p_pass + 1
            /\ p_index' = 0
            /\ p_changed' = FALSE
            /\ UNCHANGED pc
    /\ UNCHANGED <<p_answers, p_questions, p_result, syncData, parseRest>>

\* Bounds and inputs of parse_template_variables.
MaxQuestions == 2
ChainLength == 11

ParseName(i) == "v" \o ToString(i)
ParseNames == { ParseName(i) : i \in 1..MaxQuestions }
ParseAnswers ==
    UNION { [keys -> {"x"}] : keys \in SUBSET {"_commit", "v1"} }
NoDefault == [has_default |-> FALSE, default |-> ""]
Default(value) == [has_default |-> TRUE, default |-> value]
ParseConfigs ==
    {NoDefault, Default("lit"), Default("{{v1}}-"), Default("{{v2[0]}}")}

\* Every variable of the chain but the last has a default that needs the
\* next one.
ParseChain ==
    [i \in 1..ChainLength |->
        <<ParseName(i),
          IF i < ChainLength
          THEN Default("{{" \o ParseName(i + 1) \o "[0]}}")
          ELSE Default("lit")>>]

ParseQuestionLists ==
    {ParseChain}
    \cup UNION { { q \in [1..n -> ParseNames \X ParseConfigs] :
                      \A i, j \in 1..n : q[i][1] = q[j][1] => i = j }
                 : n \in 0..MaxQuestions }

InitParse ==
    /\ pc = "parse"
    /\ resolverIdle
    /\ validatorIdle
    /\ comparatorIdle
    /\ driverIdle
    /\ parseRestIdle
    /\ p_answers \in ParseAnswers
    /\ p_questions \in ParseQuestionLists
    /\ p_result = EmptyMap
    /\ p_pass = 0
    /\ p_index = 0
    /\ p_changed = FALSE

NextParse ==
    \/ ParseStart
    \/ ParseQuestion
    \/ ParsePassEnd

SpecParse == InitParse /\ [][NextParse]_vars

\* The scheduler runs the function to its end: a step that can be taken is
\* taken.
SpecParseFair == SpecParse /\ WF_vars(NextParse)

----------------------------------------------------------------------------
(* Claims about parse_template_variables                                   *)

C22_Done == pc \in {"parse_returned", "parse_raised"}

\* At most max_iterations passes; an exception only from the reading of
\* the answers and the loading of the template, before the first pass; no
\* key of the result begins with an underscore; a recorded answer keeps its
\* value.
C22_State ==
    /\ p_pass <= max_iterations
    /\ pc = "parse_raised" => p_pass = 0
    /\ \A k \in DOMAIN p_result :
          /\ ~StartsWith(k, "_")
          /\ k \in DOMAIN p_answers => p_result[k] = p_answers[k]

\* A variable that has a value keeps it, and the pass that assigned
\* nothing is the last one.
C22_Step ==
    /\ \A k \in DOMAIN p_result :
          k \in DOMAIN p_result' /\ p_result'[k] = p_result[k]
    /\ (pc = "parse_question" /\ p_index = Len(p_questions) /\ ~p_changed) =>
          pc' = "parse_returned"
    /\ p_pass' > p_pass => (p_pass = 0 \/ p_changed)

\* C22: parse_template_variables ends after at most 10 passes, the first
\* pass that assigns nothing being the last, and returns also when defaults
\* stay unresolved; an assigned variable never changes, so an answer is not
\* overwritten by a default, and no answers key beginning with an
\* underscore is in the result.
C22_TerminatesKeepingAnswers ==
    /\ []C22_State
    /\ [][C22_Step]_vars
    /\ <>C22_Done

\* The function has returned after using up its passes, the last of which
\* still assigned a variable, with a default left unresolved; the answers
\* file had a metadata key.
C22_Witness ==
    /\ pc = "parse_returned"
    /\ p_pass = max_iterations
    /\ p_changed
    /\ "_commit" \in DOMAIN p_answers
    /\ \E i \in DOMAIN p_questions :
          /\ p_questions[i][2].has_default
          /\ p_questions[i][1] \notin DOMAIN p_result

\* The function has returned because a pass assigned nothing, keeping an
\* answer for a variable whose question has a default.
C22_AnswerKept ==
    /\ pc = "parse_returned"
    /\ ~p_changed
    /\ p_pass > 1
    /\ \E i \in DOMAIN p_questions :
          /\ p_questions[i][2].has_default
          /\ p_questions[i][1] \in DOMAIN p_answers

----------------------------------------------------------------------------
(* extraction_review/process_file.py: ProcessFileWorkflow                  *)
(* Every run has its own workflow state; the agent data store is shared.   *)
(* A step of the workflow is one action, except record_extracted_data,     *)
(* which awaits the store twice and is one action per await.               *)

\* config.py, lines 340-346.
FILING_SCHEMAS ==
    [k \in {"10-K", "10-Q", "8-K", "other"} |->
        IF k = "10-K" THEN "Filing10K"
        ELSE IF k = "10-Q" THEN "Filing10Q"
        ELSE IF k = "8-K" THEN "Filing8K"
        ELSE "FilingOther"]

\* str.upper() for the letters of the filing types.
FilingLower == <<"e", "h", "k", "o", "q", "r", "s", "t">>
FilingUpper == <<"E", "H", "K", "O", "Q", "R", "S", "T">>
RECURSIVE Upper(_)
Upper(s) ==
    IF s = "" THEN ""
    ELSE LET c == SubSeq(s, 1, 1)
         IN  (IF \E k \in DOMAIN FilingLower : FilingLower[k] = c
              THEN FilingUpper[CHOOSE k \in DOMAIN FilingLower : FilingLower[k] = c]
              ELSE c)
             \o Upper(SubSeq(s, 2, Len(s)))

\* A mutant of SchemaFor: the stored type is looked up as it is.
SchemaForExact(state_filing_type) ==
    LET filing_type == IF state_filing_type = None THEN "other"
                       ELSE state_filing_type
    IN  IF filing_type \in DOMAIN FILING_SCHEMAS
        THEN FILING_SCHEMAS[filing_type] ELSE FILING_SCHEMAS["other"]

\* process_file, lines 274-275: the schema for the stored filing type.
SchemaFor(state_filing_type) ==
    LET filing_type == Upper(IF state_filing_type \in {None, ""} THEN "other"
                             ELSE state_filing_type)
    IN  IF filing_type \in DOMAIN FILING_SCHEMAS
        THEN FILING_SCHEMAS[filing_type] ELSE FILING_SCHEMAS["other"]

\* What the classifier can do: raise, return no items, return an item
\* without a result, or return a result with a type, which may be None.
Classified(type) == [kind |-> "result", type |-> type]
ClassifierFailed(kind) == [kind |-> kind, type |-> None]

\* classify_file, lines 201-262: the filing type stored and the one the
\* FileClassifiedEvent carries. A result whose type is None makes the
\* construction of the event raise, which the handler catches.
StoredFilingType(outcome) ==
    IF outcome.kind = "result" /\ outcome.type # None
    THEN outcome.type ELSE "other"

\* hashlib.sha256(file_content).hexdigest(): one digest per content.
Sha256(content) == "sha256:" \o content

\* An item of the agent data store.
Item(id, file_hash, run) == [id |-> id, file_hash |-> file_hash, run |-> run]

XSet(f, r, v) == [f EXCEPT ![r] = v]

\* Inputs of the workflow.
ClassifierTypes == {"10-K", "10-Q", "8-K", "other", "10-k", "S-1", None}
ClassifierOutcomes ==
    { Classified(t) : t \in ClassifierTypes }
    \cup { ClassifierFailed(k) : k \in {"raises", "no_items", "no_result"} }
FileContents == {"c1", "c2"}
\* The item an earlier run on the first content has left in the store.
EarlierItem == Item(0, Sha256("c1"), 0)

\* run_file, lines 78-83.
RunFile(r) ==
    /\ x_pc[r] = "run_file"
    /\ x_pc' = XSet(x_pc, r, "download_file")
    /\ UNCHANGED <<x_hash, x_classifier, x_filing_type, x_classified,
                   x_schema, x_store, x_created, x_recorded,
                   syncVars, extractRest>>

\* download_file, lines 85-126: a failure is raised again.
DownloadFile(r) ==
    /\ x_pc[r] = "download_file"
    /\ \E ok \in BOOLEAN :
          x_pc' = XSet(x_pc, r, IF ok THEN "classify_file" ELSE "download_raised")
    /\ UNCHANGED <<x_hash, x_classifier, x_filing_type, x_classified,
                   x_schema, x_store, x_created, x_recorded,
                   syncVars, extractRest>>

\* classify_file, lines 128-262.
ClassifyFile(r) ==
    /\ x_pc[r] = "classify_file"
    /\ \E outcome \in ClassifierOutcomes :
          /\ x_classifier' = XSet(x_classifier, r, outcome)
          /\ x_filing_type' = XSet(x_filing_type, r, StoredFilingType(outcome))
          /\ x_classified' = XSet(x_classified, r, StoredFilingType(outcome))
    /\ x_pc' = XSet(x_pc, r, "process_file")
    /\ UNCHANGED <<x_hash, x_schema, x_store, x_created, x_recorded,
                   syncVars, extractRest>>

\* process_file, lines 264-334: the schema is given to the agent, then the
\* extraction runs; invalid data is passed on like valid data, any other
\* failure is raised again.
ProcessFile(r) ==
    /\ x_pc[r] = "process_file"
    /\ x_schema' = XSet(x_schema, r, SchemaFor(x_filing_type[r]))
    /\ \E ok \in BOOLEAN :
          x_pc' = XSet(x_pc, r, IF ok THEN "record_delete" ELSE "process_raised")
    /\ UNCHANGED <<x_hash, x_classifier, x_filing_type, x_classified,
                   x_store, x_created, x_recorded,
                   syncVars, extractRest>>

\* record_extracted_data, lines 350-357: the items with the file's hash are
\* deleted, or the call fails.
RecordDelete(r) ==
    /\ x_pc[r] = "record_delete"
    /\ \E ok \in BOOLEAN :
          IF ok
          THEN /\ x_store' = { i \in x_store : i.file_hash # x_hash[r] }
               /\ x_pc' = XSet(x_pc, r, "record_create")
          ELSE /\ x_pc' = XSet(x_pc, r, "delete_raised")
               /\ UNCHANGED x_store
    /\ UNCHANGED <<x_hash, x_classifier, x_filing_type, x_classified,
                   x_schema, x_created, x_recorded,
                   syncVars, extractRest>>

\* record_extracted_data, lines 362-377: the new item is created, or the
\* call fails and the failure is raised again.
RecordCreate(r) ==
    /\ x_pc[r] = "record_create"
    /\ \E ok \in BOOLEAN :
          IF ok
          THEN /\ x_store' = x_store \cup {Item(x_created + 1, x_hash[r], r)}
               /\ x_created' = x_created + 1
               /\ x_recorded' = Append(x_recorded, r)
               /\ x_pc' = XSet(x_pc, r, "stopped")
          ELSE /\ x_pc' = XSet(x_pc, r, "create_raised")
               /\ UNCHANGED <<x_store, x_created, x_recorded>>
    /\ UNCHANGED <<x_hash, x_classifier, x_filing_type, x_classified, x_schema,
                   syncVars, extractRest>>

NextWorkflow ==
    \E r \in WorkflowRuns :
        \/ RunFile(r)
        \/ DownloadFile(r)
        \/ ClassifyFile(r)
        \/ ProcessFile(r)
        \/ RecordDelete(r)
        \/ RecordCreate(r)

\* The runs in `started` begin, each on a file of any of the contents.
InitWorkflowRuns(started) ==
    /\ pc = "workflow"
    /\ resolverIdle
    /\ validatorIdle
    /\ comparatorIdle
    /\ driverIdle
    /\ extractRestIdle
    /\ x_pc = [r \in WorkflowRuns |-> IF r \in started THEN "run_file" ELSE "idle"]
    /\ x_hash \in { [r \in WorkflowRuns |->
                        IF r \in started THEN Sha256(contents[r]) ELSE ""] :
                    contents \in [WorkflowRuns -> FileContents] }
    /\ x_classifier = [r \in WorkflowRuns |-> NotClassified]
    /\ x_filing_type = [r \in WorkflowRuns |-> None]
    /\ x_classified = [r \in WorkflowRuns |-> Pending]
    /\ x_schema = [r \in WorkflowRuns |-> Pending]
    /\ x_store = {EarlierItem}
    /\ x_created = 0
    /\ x_recorded = <<>>

\* One run of the workflow.
InitWorkflow == InitWorkflowRuns({1})
SpecWorkflow == InitWorkflow /\ [][NextWorkflow]_vars

\* Several runs, started together and interleaved at their awaits.
InitWorkflows == InitWorkflowRuns(WorkflowRuns)
SpecWorkflows == InitWorkflows /\ [][NextWorkflow]_vars

----------------------------------------------------------------------------
(* Claims about classification and the schema of the extraction            *)

C23_Failures == {"raises", "no_items", "no_result"}
C23_RaisedSteps ==
    {"download_raised", "process_raised", "delete_raised", "create_raised"}

\* A failed classification stores and announces "other", and the schema
\* of the extraction is then FilingOther.
C23_FailureGivesOther ==
    \A r \in WorkflowRuns :
        x_classifier[r].kind \in C23_Failures =>
            /\ x_filing_type[r] = "other"
            /\ x_classified[r] = "other"
            /\ x_schema[r] \in {Pending, "FilingOther"}

\* The step after classify_file is process_file, whatever the classifier
\* did, and a run that raised takes no further step.
C23_Step ==
    \A r \in WorkflowRuns :
        /\ (x_pc[r] = "classify_file" /\ x_pc'[r] # x_pc[r]) =>
              x_pc'[r] = "process_file"
        /\ x_pc[r] \in C23_RaisedSteps => x_pc'[r] = x_pc[r]

\* The schema is the one FILING_SCHEMAS has for the stored type.
C23_SchemaOfStored ==
    \A r \in WorkflowRuns :
        x_schema[r] # Pending =>
            x_schema[r] = IF x_filing_type[r] \in DOMAIN FILING_SCHEMAS
                          THEN FILING_SCHEMAS[x_filing_type[r]]
                          ELSE "FilingOther"

\* The schema is the one FILING_SCHEMAS has for the stored type in upper
\* case.
C23_SchemaOfUpper ==
    \A r \in WorkflowRuns :
        x_schema[r] # Pending =>
            x_schema[r] = IF Upper(x_filing_type[r]) \in DOMAIN FILING_SCHEMAS
                          THEN FILING_SCHEMAS[Upper(x_filing_type[r])]
                          ELSE "FilingOther"

----------------------------------------------------------------------------
(* Claims about the items of the data store                                *)

\* The runs on files with hash h, and the last of them to create its item.
C24_RunsOn(h) == { r \in WorkflowRuns : x_hash[r] = h }
C24_LastRecorded(h) ==
    LET at == { k \in DOMAIN x_recorded : x_recorded[k] \in C24_RunsOn(h) }
    IN  x_recorded[CHOOSE k \in at : \A m \in at : m <= k]

\* C24: when the runs on files of one content have all completed, the
\* store holds exactly one item with that hash, created by the run that
\* recorded last; and a run whose create_item failed has left the item
\* stored before it in place.
C24_OneItemPerHash ==
    /\ \A h \in { x_hash[r] : r \in WorkflowRuns } :
          (\A r \in C24_RunsOn(h) : x_pc[r] = "stopped") =>
              \E i \in x_store :
                  /\ i.run = C24_LastRecorded(h)
                  /\ { j \in x_store : j.file_hash = h } = {i}
    /\ \A r \in WorkflowRuns :
          (/\ x_pc[r] = "create_raised"
           /\ x_hash[r] = EarlierItem.file_hash
           /\ C24_RunsOn(x_hash[r]) = {r}) =>
              EarlierItem \in x_store

\* The first half alone, and the second half alone.
C24_OneItemWhenAllStopped ==
    \A h \in { x_hash[r] : r \in WorkflowRuns } :
        (\A r \in C24_RunsOn(h) : x_pc[r] = "stopped") =>
            Cardinality({ j \in x_store : j.file_hash = h }) = 1
C24_FailedCreateKeepsItem ==
    \A r \in WorkflowRuns :
        (/\ x_pc[r] = "create_raised"
         /\ x_hash[r] = EarlierItem.file_hash
         /\ C24_RunsOn(x_hash[r]) = {r}) =>
            EarlierItem \in x_store

-----------------------------------------------------------------------------
(* packages/coding-agent: workflow/workflow.py, CodingAgentWorkflow        *)

\* An event of the workflow: its class and the one field the steps branch on.
Event(name, arg) == [name |-> name, arg |-> arg]
InputConfig == Event("InputConfig", "")
QuestionToHuman(type) == Event("QuestionToHuman", type)
PlanEvent == Event("Plan", "")
BuildEvent == Event("Build", "")
Finalize(event) == Event("Finalize", event)
\* OutputSummary, with what the summary says of the export.
OutputSummary(export) == Event("OutputSummary", export)
\* An exception that leaves a step: the run of the workflow fails.
StepRaised(error) == Event("raised", error)

HumanDecision(type, response) == [type |-> type, response |-> response]

\* `not value` of an optional string: None and "" are both false.
IsSet(value) == value # None /\ value # ""

\* utils.check_if_yes
check_if_yes(s) == Lower(strip(s)) \in {"y", "yes", "ys", "yse"}

\* resolve_agent deciding on the mode before it looks at the prompt.
resolve_agent_mode_first(current_prompt, current_mode) ==
    IF current_mode = "plan" THEN PlanEvent
    ELSE IF current_mode = "build" THEN BuildEvent
    ELSE IF ~IsSet(current_prompt) THEN QuestionToHuman("prompt")
    ELSE IF ~IsSet(current_mode) THEN QuestionToHuman("mode_choice")
    ELSE StepRaised("UnrecognizedMode")

\* resolve_agent, lines 54-74, on the state it reads.
resolve_agent(current_prompt, current_mode) ==
    IF ~IsSet(current_prompt) THEN QuestionToHuman("prompt")
    ELSE IF ~IsSet(current_mode) THEN QuestionToHuman("mode_choice")
    ELSE IF current_mode = "plan" THEN PlanEvent
    ELSE IF current_mode = "build" THEN BuildEvent
    ELSE StepRaised("UnrecognizedMode")

\* Bounds of a session: decisions of the human and runs of the agent.
MaxHumanDecisions == 5
MaxAgentRuns == 3

\* --prompt and --mode of the command line (tui/cli.py), free strings.
ProvidedPrompts == {None, "", "fix it"}
ProvidedModes == {None, "plan", "build", "Plan"}
\* What the human types at a question.
HumanResponses == {"/exit", " Yes", " Plan ", "build", "", "no"}

\* Messages of the agent's stream.
TextMessage == [type |-> "text", result |-> ""]
FinalResult(text) == [type |-> "final_result", result |-> text]
\* A run of the agent: generate() or plan() raises, or the stream it
\* returns.
AgentRaises == <<[type |-> "raises", result |-> ""]>>
AgentStreams ==
    {AgentRaises,
     <<FinalResult("do A")>>,
     <<TextMessage, FinalResult("do B")>>,
     <<TextMessage, FinalResult(None)>>}

\* message["result"] or "No result was produced"
ResultOr(text) == IF IsSet(text) THEN text ELSE "No result was produced"

\* Lines 159-182: the role under which a message enters the history.
MessageRole(message) ==
    IF message.type = "final_result" THEN "result" ELSE "assistant"

RECURSIVE MessageRoles(_)
MessageRoles(messages) ==
    IF messages = <<>> THEN <<>>
    ELSE <<MessageRole(Head(messages))>> \o MessageRoles(Tail(messages))

\* Lines 158-161: `state` is the copy that get_state returned until the
\* first `async with ctx.store.edit_state() as state` rebinds it to the
\* stored state, so a final result in the first message is assigned to the
\* copy and one in a later message to the stored state.
RECURSIVE StoredResult(_, _, _)
StoredResult(messages, i, current_result) ==
    IF i > Len(messages) THEN current_result
    ELSE StoredResult(messages, i + 1,
            IF i > 1 /\ messages[i].type = "final_result"
            THEN ResultOr(messages[i].result)
            ELSE current_result)

\* The final result a run of the agent produced ("" when it had none).
RECURSIVE RunResult(_, _, _)
RunResult(messages, i, last) ==
    IF i > Len(messages) THEN last
    ELSE RunResult(messages, i + 1,
            IF messages[i].type = "final_result"
            THEN ResultOr(messages[i].result)
            ELSE last)

\* Lines 154-156 and 195-197: the prompt the agent is called with.
BuildPrompt(current_prompt, current_plan) ==
    IF current_plan # ""
    THEN current_prompt
            \o "\n\nNOTE:\nBe aware of the plan you just made for this:\n"
            \o current_plan \o "\n"
    ELSE current_prompt

PlanPrompt(current_prompt, current_plan) ==
    IF current_plan # ""
    THEN current_prompt
            \o "\n\nNOTE:\nBe aware of the previous plan you made:\n"
            \o current_plan \o "\n"
    ELSE current_prompt

AgentCall(method, agent_prompt, final_result) ==
    [method |-> method, prompt |-> agent_prompt, result |-> final_result]

\* The mode left as it is where the workflow switches it.
OtherModeSame(current_mode) == current_mode

\* Lines 105-106: ({"build", "plan"} - {state.current_mode}).pop()
OtherMode(current_mode) ==
    CHOOSE m \in {"build", "plan"} : m # current_mode

\* configure_agent, lines 35-52.  The constructor of the agent raises
\* without its API key.
ConfigureAgent ==
    /\ c_event = InputConfig
    /\ \E has_key \in BOOLEAN, enable_persistence \in BOOLEAN,
          provided_prompt \in ProvidedPrompts,
          provided_mode \in ProvidedModes :
          IF ~has_key
          THEN /\ c_event' = StepRaised("MissingAPIKey")
               /\ UNCHANGED <<c_enable_persistance, c_current_prompt,
                              c_current_mode>>
          ELSE LET new_prompt == IF IsSet(provided_prompt)
                             THEN provided_prompt ELSE c_current_prompt
                   mode == IF IsSet(provided_mode)
                           THEN provided_mode ELSE c_current_mode
               IN  /\ c_enable_persistance' = enable_persistence
                   /\ c_current_prompt' = new_prompt
                   /\ c_current_mode' = mode
                   /\ c_event' = resolve_agent(new_prompt, mode)
    /\ UNCHANGED <<c_current_plan, c_current_result, c_chat_history,
                   c_is_db_inited, c_decision, c_call, c_runs, c_decisions,
                   syncVars, codingRest>>

\* handle_human_response, lines 76-113.  The terminal answers a question
\* with a decision of the question's type (tui/utils.py).
HandleHumanResponse ==
    /\ c_event.name = "QuestionToHuman"
    /\ c_decisions < MaxHumanDecisions
    /\ \E response \in HumanResponses :
          LET type == c_event.arg
              answer == Lower(strip(response))
          IN  /\ c_decision' = HumanDecision(type, response)
              /\ IF response = "/exit"
                 THEN /\ c_event' = Finalize("build")
                      /\ UNCHANGED <<c_current_prompt, c_current_mode,
                                     c_chat_history>>
                 ELSE IF type = "prompt"
                 THEN /\ c_chat_history' = Append(c_chat_history, "user")
                      /\ c_current_prompt' = response
                      /\ c_event' = resolve_agent(response, c_current_mode)
                      /\ UNCHANGED c_current_mode
                 ELSE IF type = "mode_choice"
                 THEN IF answer \notin {"build", "plan"}
                      THEN /\ c_event' = resolve_agent(c_current_prompt,
                                                       c_current_mode)
                           /\ UNCHANGED <<c_current_prompt, c_current_mode,
                                          c_chat_history>>
                      ELSE /\ c_current_mode' = answer
                           /\ c_event' = resolve_agent(c_current_prompt,
                                                       answer)
                           /\ UNCHANGED <<c_current_prompt, c_chat_history>>
                 ELSE IF type = "approve_final_result"
                 THEN /\ c_event' = IF check_if_yes(response)
                                    THEN Finalize(c_current_mode)
                                    ELSE QuestionToHuman("prompt")
                      /\ UNCHANGED <<c_current_prompt, c_current_mode,
                                     c_chat_history>>
                 ELSE IF type = "approve_mode_change"
                 THEN IF check_if_yes(response)
                      THEN LET other == OtherMode(c_current_mode)
                           IN  /\ c_current_mode' = other
                               /\ c_event' = resolve_agent(c_current_prompt,
                                                           other)
                               /\ UNCHANGED <<c_current_prompt,
                                              c_chat_history>>
                      ELSE /\ c_current_prompt' = response
                           /\ c_event' = resolve_agent(response,
                                                       c_current_mode)
                           /\ UNCHANGED <<c_current_mode, c_chat_history>>
                 ELSE /\ c_event' = StepRaised("UnrecognizedMode")
                      /\ UNCHANGED <<c_current_prompt, c_current_mode,
                                     c_chat_history>>
    /\ c_decisions' = c_decisions + 1
    /\ UNCHANGED <<c_current_plan, c_current_result, c_enable_persistance,
                   c_is_db_inited, c_call, c_runs,
                   syncVars, codingRest>>

\* What the database does in handle_finalize.
DbOutcomes == {"ok", "init_raises", "connect_raises", "write_raises"}

\* handle_finalize, lines 115-146.  _init_db and the connection are outside
\* the try; create_message and commit are inside it.
HandleFinalize ==
    /\ c_event.name = "Finalize"
    /\ \E db \in DbOutcomes :
          IF c_event.arg = "plan"
          THEN /\ c_event' = QuestionToHuman("approve_mode_change")
               /\ UNCHANGED c_is_db_inited
          ELSE IF ~c_enable_persistance
          THEN /\ c_event' = OutputSummary("")
               /\ UNCHANGED c_is_db_inited
          ELSE IF ~c_is_db_inited /\ db = "init_raises"
          THEN /\ c_event' = StepRaised("_init_db")
               /\ UNCHANGED c_is_db_inited
          ELSE /\ c_is_db_inited' = TRUE
               /\ c_event' =
                    IF db = "connect_raises"
                    THEN StepRaised("sqlite_connection")
                    ELSE IF db = "write_raises"
                    THEN OutputSummary("error while saving")
                    ELSE OutputSummary("correctly exported")
    /\ UNCHANGED <<c_current_prompt, c_current_mode, c_current_plan,
                   c_current_result, c_chat_history, c_enable_persistance,
                   c_decision, c_call, c_runs, c_decisions,
                   syncVars, codingRest>>

\* The body shared by handle_build and handle_plan: the agent is called
\* with the prompt and its stream is consumed into the history.
RunAgent(method, agent_prompt, messages) ==
    /\ c_runs < MaxAgentRuns
    /\ c_runs' = c_runs + 1
    /\ IF messages = AgentRaises
       THEN /\ c_event' = StepRaised(method)
            /\ c_call' = AgentCall(method, agent_prompt, "")
            /\ UNCHANGED <<c_chat_history, c_current_result>>
       ELSE /\ c_event' = QuestionToHuman("approve_final_result")
            /\ c_call' = AgentCall(method, agent_prompt, RunResult(messages, 1, ""))
            /\ c_chat_history' = c_chat_history \o MessageRoles(messages)
            /\ c_current_result' = StoredResult(messages, 1, c_current_result)
    /\ UNCHANGED <<c_current_prompt, c_current_mode, c_current_plan,
                   c_enable_persistance, c_is_db_inited, c_decision,
                   c_decisions, syncVars, codingRest>>

\* handle_build, lines 148-187.
HandleBuild ==
    /\ c_event = BuildEvent
    /\ \E messages \in AgentStreams :
          RunAgent("generate",
                   BuildPrompt(c_current_prompt, c_current_plan), messages)

\* handle_plan, lines 189-227.
HandlePlan ==
    /\ c_event = PlanEvent
    /\ \E messages \in AgentStreams :
          RunAgent("plan",
                   PlanPrompt(c_current_prompt, c_current_plan), messages)

NextCoding ==
    \/ ConfigureAgent
    \/ HandleHumanResponse
    \/ HandleFinalize
    \/ HandleBuild
    \/ HandlePlan

\* CodingWorkflowState as constructed, and the start event sent.
InitCoding ==
    /\ pc = "coding"
    /\ resolverIdle
    /\ validatorIdle
    /\ comparatorIdle
    /\ driverIdle
    /\ codingRestIdle
    /\ c_event = InputConfig
    /\ c_current_prompt = None
    /\ c_current_mode = None
    /\ c_current_plan = ""
    /\ c_current_result = ""
    /\ c_chat_history = <<>>
    /\ c_enable_persistance = FALSE
    /\ c_is_db_inited = FALSE
    /\ c_decision = HumanDecision("", "")
    /\ c_call = AgentCall("", "", "")
    /\ c_runs = 0
    /\ c_decisions = 0

SpecCoding == InitCoding /\ [][NextCoding]_vars

-----------------------------------------------------------------------------
(* Properties of CodingAgentWorkflow                                       *)

\* The state of the session that the steps read and write.
C25_State == <<c_current_prompt, c_current_mode, c_current_plan,
               c_current_result, c_chat_history>>

\* An event that resolve_agent can return is waiting.
C25_Resolved == c_event.name \in {"QuestionToHuman", "Plan", "Build"}

C25_Emitted ==
    /\ (c_event \in {PlanEvent, BuildEvent} =>
            /\ IsSet(c_current_prompt)
            /\ IsSet(c_current_mode)
            /\ (c_event = PlanEvent <=> c_current_mode = "plan")
            /\ (c_event = BuildEvent <=> c_current_mode = "build"))
    /\ (C25_Resolved /\ ~IsSet(c_current_prompt) =>
            c_event = QuestionToHuman("prompt"))
    /\ (C25_Resolved /\ IsSet(c_current_prompt) /\ ~IsSet(c_current_mode) =>
            c_event = QuestionToHuman("mode_choice"))

\* A decision on the mode question that names neither mode (and is not the
\* exit command) is handled in this step.
C25_BadModeAnswer ==
    /\ c_event = QuestionToHuman("mode_choice")
    /\ c_decisions' = c_decisions + 1
    /\ c_decision'.response # "/exit"
    /\ Lower(strip(c_decision'.response)) \notin {"build", "plan"}

C25_Step ==
    /\ (C25_BadModeAnswer =>
            /\ UNCHANGED C25_State
            /\ c_event' = QuestionToHuman("mode_choice"))
    /\ (c_event' \in {PlanEvent, BuildEvent} /\ c_event' # c_event =>
            /\ IsSet(c_current_prompt')
            /\ c_current_mode' =
                  (IF c_event' = PlanEvent THEN "plan" ELSE "build"))

C26_Exit == c_decision.response = "/exit"

\* C26: a response that is exactly '/exit', to any question and in any
\* mode, ends the session: Finalize is handled at once and OutputSummary is
\* emitted, without another run of the agent and without another question;
\* and OutputSummary is emitted only after '/exit' or after a result is
\* approved in mode 'build'.
C26_ExitEndsSession ==
    /\ (C26_Exit => c_event \in {Finalize("build")}
                        \cup {OutputSummary(export) :
                                export \in {"", "error while saving",
                                            "correctly exported"}})
    /\ (c_event.name = "OutputSummary" =>
            \/ C26_Exit
            \/ /\ c_decision.type = "approve_final_result"
               /\ check_if_yes(c_decision.response)
               /\ c_current_mode = "build")

\* What does hold after '/exit': no further run and no further question;
\* the session ends with the summary or with the exception of the database.
C26_ExitEndsSessionOrRaises ==
    /\ (C26_Exit => c_event.name \in {"Finalize", "OutputSummary", "raised"})
    /\ (C26_Exit /\ c_event.name = "raised" =>
            c_event.arg \in {"_init_db", "sqlite_connection"})
    /\ (c_event.name = "OutputSummary" =>
            \/ C26_Exit
            \/ /\ c_decision.type = "approve_final_result"
               /\ check_if_yes(c_decision.response)
               /\ c_current_mode = "build")

\* '/exit' was answered to the question that asks to approve a plan, and
\* the session has ended without a summary.
C26_ExitRaised ==
    /\ C26_Exit
    /\ c_decision.type = "approve_final_result"
    /\ c_current_mode = "plan"
    /\ c_event.name = "raised"

\* A decision of the human, other than the exit command, is handled in this
\* step.
C27_Handled ==
    /\ c_event.name = "QuestionToHuman"
    /\ c_decisions' = c_decisions + 1
    /\ c_decision'.response # "/exit"

C27_Yes == check_if_yes(c_decision'.response)

C27_Rerun == IF c_current_mode = "plan" THEN PlanEvent ELSE BuildEvent

\* What both statements of C27 share: approval of a plan, the switch to
\* build, rejection of a result and the new prompt after it.
C27_Common ==
    /\ (C27_Handled /\ c_event.arg = "approve_final_result" /\ C27_Yes
            /\ c_current_mode = "plan" =>
            c_event' = Finalize("plan"))
    /\ (c_event = Finalize("plan") /\ c_event' # c_event =>
            /\ c_event' = QuestionToHuman("approve_mode_change")
            /\ UNCHANGED C25_State)
    /\ (C27_Handled /\ c_event.arg = "approve_mode_change" /\ C27_Yes =>
            /\ c_current_mode = "plan"
            /\ c_current_mode' = "build"
            /\ c_event' = BuildEvent
            /\ UNCHANGED c_current_prompt)
    /\ (C27_Handled /\ c_event.arg = "approve_final_result" /\ ~C27_Yes =>
            /\ c_event' = QuestionToHuman("prompt")
            /\ UNCHANGED c_current_mode)
    /\ (C27_Handled /\ c_event.arg = "prompt" /\ c_runs > 0
            /\ c_decision'.response # "" =>
            /\ c_event' = C27_Rerun
            /\ c_current_prompt' = c_decision'.response
            /\ UNCHANGED c_current_mode)

\* C27 as stated: on any answer to the mode-change question other than yes,
\* the mode stays 'plan', the answer becomes the prompt and Plan runs again.
C27_AnyOtherAnswerPlansAgain ==
    [][/\ C27_Common
       /\ (C27_Handled /\ c_event.arg = "approve_mode_change" /\ ~C27_Yes =>
            /\ c_current_mode' = "plan"
            /\ c_current_prompt' = c_decision'.response
            /\ c_event' = PlanEvent)]_vars

\* C27: an approved plan leads to the mode-change question; yes switches to
\* 'build' and runs Build with the unchanged prompt; any other answer keeps
\* mode 'plan' and becomes the prompt, and Plan runs again when that answer
\* is not empty, while an empty answer has the prompt asked for; a rejected
\* result has a new prompt asked for and the agent run again in the
\* unchanged mode.
C27_OtherAnswerPlansAgainUnlessEmpty ==
    [][/\ C27_Common
       /\ (C27_Handled /\ c_event.arg = "approve_mode_change" /\ ~C27_Yes =>
            /\ c_current_mode' = "plan"
            /\ c_current_prompt' = c_decision'.response
            /\ c_event' = IF c_decision'.response = ""
                          THEN QuestionToHuman("prompt")
                          ELSE PlanEvent)]_vars

\* The switch to build was declined with "no", and Plan is emitted again.
C27_Witness ==
    /\ c_event = PlanEvent
    /\ c_runs >= 1
    /\ c_decision = HumanDecision("approve_mode_change", "no")
    /\ c_current_prompt = "no"
    /\ c_current_mode = "plan"

\* The switch to build was answered with nothing, and the prompt is asked
\* for.
C27_EmptyAnswer ==
    /\ c_event = QuestionToHuman("prompt")
    /\ c_decision = HumanDecision("approve_mode_change", "")
    /\ c_current_prompt = ""

\* The agent is run in this step and its previous run was a plan run that
\* produced a final result.
C28_RunAfterPlan ==
    /\ c_event \in {BuildEvent, PlanEvent}
    /\ c_runs' = c_runs + 1
    /\ c_call.method = "plan"
    /\ c_call.result # ""

\* C28: when Build, or Plan again, runs after a plan run, state.current_plan
\* holds the final result of that plan run and the prompt the agent is
\* called with contains it.
C28_PlanHandedOff ==
    [][C28_RunAfterPlan =>
            /\ c_current_plan = c_call.result
            /\ Contains(c_call'.prompt, c_call.result)]_vars

\* What the code does: current_plan is never assigned, and the agent is
\* called with current_prompt alone.
C28_PlanNeverStored ==
    /\ [](c_current_plan = "")
    /\ [][c_runs' = c_runs + 1 => c_call'.prompt = c_current_prompt]_vars

\* Build has run after an approved plan "do A" with the prompt alone.
C28_BuildWithoutPlan ==
    /\ c_call.method = "generate"
    /\ c_call.prompt = "fix it"
    /\ c_runs = 2
    /\ c_decision.type = "approve_mode_change"
    /\ c_chat_history = <<"result", "result">>

-----------------------------------------------------------------------------
(* packages/coding-agent: adapters/claude_code/agent.py, ClaudeCodingAgent *)

\* PermissionMode of the SDK, or None.
PermissionModes == {"default", "acceptEdits", "plan", "bypassPermissions", None}

MaxAgentCalls == 4

\* generate with the configured permissions restored whatever they are.
generate_permission_mode_restored(permission_mode, permissions) ==
    IF permission_mode = "plan" THEN permissions ELSE permission_mode

\* generate, lines 117-121: options.permission_mode after the test.
generate_permission_mode(permission_mode, permissions) ==
    IF permission_mode = "plan"
    THEN IF permissions # "plan" THEN permissions ELSE "acceptEdits"
    ELSE permission_mode

\* warmup, lines 110-114, and BaseCodingAgent.warmup: what can happen in
\* the state of the two flags.
WarmupOutcomes ==
    {"ok"} \cup (IF k_is_db_inited THEN {} ELSE {"init_db_raises"})
           \cup (IF k_is_warmed_up THEN {} ELSE {"warmup_raises"})

Warmup(outcome) ==
    /\ k_is_db_inited' = (k_is_db_inited \/ outcome # "init_db_raises")
    /\ k_is_warmed_up' = (k_is_warmed_up \/ outcome = "ok")

Query(method, permission_mode) ==
    [method |-> method, permission_mode |-> permission_mode]

\* The call is made while an earlier stream is still to be consumed.
Called ==
    /\ k_calls < MaxAgentCalls
    /\ k_calls' = k_calls + 1
    /\ k_overlapped' = (k_overlapped \/ k_streams # <<>>)

\* generate, lines 116-132: the permission mode is set, then the agent is
\* warmed up, then the generator is returned; nothing is queried yet.
AgentGenerate ==
    /\ pc = "agent"
    /\ Called
    /\ k_permission_mode' =
            generate_permission_mode(k_permission_mode, k_permissions)
    /\ \E outcome \in WarmupOutcomes :
          /\ Warmup(outcome)
          /\ k_streams' = IF outcome = "ok"
                          THEN Append(k_streams, "generate") ELSE k_streams
    /\ UNCHANGED <<k_permissions, k_queries, syncVars, agentRest>>

\* plan, lines 134-146: the agent is warmed up, then the permission mode is
\* set, then the generator is returned.
AgentPlan ==
    /\ pc = "agent"
    /\ Called
    /\ \E outcome \in WarmupOutcomes :
          /\ Warmup(outcome)
          /\ IF outcome = "ok"
             THEN /\ k_permission_mode' = "plan"
                  /\ k_streams' = Append(k_streams, "plan")
             ELSE UNCHANGED <<k_permission_mode, k_streams>>
    /\ UNCHANGED <<k_permissions, k_queries, syncVars, agentRest>>

\* The caller iterates over a returned generator: _query, lines 148-150,
\* opens the client on self.options as they are now and sends the prompt.
ConsumeStream(i) ==
    /\ pc = "agent"
    /\ i \in DOMAIN k_streams
    /\ k_queries' = Append(k_queries, Query(k_streams[i], k_permission_mode))
    /\ k_streams' = [j \in 1..(Len(k_streams) - 1) |->
                        IF j < i THEN k_streams[j] ELSE k_streams[j + 1]]
    /\ UNCHANGED <<k_permissions, k_permission_mode, k_is_db_inited,
                   k_is_warmed_up, k_overlapped, k_calls,
                   syncVars, agentRest>>

NextAgent ==
    \/ AgentGenerate
    \/ AgentPlan
    \/ \E i \in 1..MaxAgentCalls : ConsumeStream(i)

\* __init__, lines 40-72: the agent as constructed with any permissions.
InitAgent ==
    /\ pc = "agent"
    /\ resolverIdle
    /\ validatorIdle
    /\ comparatorIdle
    /\ driverIdle
    /\ agentRestIdle
    /\ k_permissions \in PermissionModes
    /\ k_permission_mode = k_permissions
    /\ k_is_db_inited = FALSE
    /\ k_is_warmed_up = FALSE
    /\ k_streams = <<>>
    /\ k_queries = <<>>
    /\ k_overlapped = FALSE
    /\ k_calls = 0

SpecAgent == InitAgent /\ [][NextAgent]_vars

C29_QueryMode(q) ==
    IF q.method = "plan" THEN q.permission_mode = "plan"
    ELSE /\ q.permission_mode # "plan"
         /\ q.permission_mode =
              (IF k_permissions = "plan" THEN "acceptEdits" ELSE k_permissions)

\* C29: when every returned stream is consumed before the next call, every
\* query of plan() runs with permission mode 'plan' and every query of
\* generate() with the configured permissions, or with 'acceptEdits' when
\* those are 'plan'.
C29_PermissionModeFollowsMethod ==
    ~k_overlapped =>
        \A n \in DOMAIN k_queries : C29_QueryMode(k_queries[n])

\* An agent configured with 'plan': plan, generate, plan, each consumed.
C29_Witness ==
    /\ ~k_overlapped
    /\ k_permissions = "plan"
    /\ k_queries = <<Query("plan", "plan"), Query("generate", "acceptEdits"),
                     Query("plan", "plan")>>

\* Without the condition on the streams the statement does not hold: a plan
\* stream consumed after generate() was called queries outside plan mode.
C29_AnyOrder ==
    \A n \in DOMAIN k_queries : C29_QueryMode(k_queries[n])

-----------------------------------------------------------------------------
(* git/changes.py: templates_from_files, and the changed command of cli.py *)

\* The characters of the paths and names below, in the order of their code
\* points.
CodePointOrder == <<"-", ".", "/", "A", "D", "E", "M", "R", "a", "b", "c",
                    "d", "e", "i", "l", "m", "n", "p", "r", "s", "t", "u",
                    "x", "y">>

CodePointRank(c) == CHOOSE k \in DOMAIN CodePointOrder : CodePointOrder[k] = c

\* a < b of Python on strings: by code point, a proper prefix first.
RECURSIVE StrLess(_, _)
StrLess(a, b) ==
    IF b = "" THEN FALSE
    ELSE IF a = "" THEN TRUE
    ELSE LET x == CodePointRank(SubSeq(a, 1, 1))
             y == CodePointRank(SubSeq(b, 1, 1))
         IN  IF x # y THEN x < y
             ELSE StrLess(SubSeq(a, 2, Len(a)), SubSeq(b, 2, Len(b)))

\* sorted(templates) of a set of strings
RECURSIVE SortedStrings(_)
SortedStrings(strings) ==
    IF strings = {} THEN <<>>
    ELSE LET least == CHOOSE a \in strings :
                        \A b \in strings \ {a} : StrLess(a, b)
         IN  <<least>> \o SortedStrings(strings \ {least})

\* path.split("/")
RECURSIVE SplitSlash(_)
SplitSlash(s) ==
    IF \E i \in 1..Len(s) : SubSeq(s, i, i) = "/"
    THEN LET n == CHOOSE i \in 1..Len(s) :
                    /\ SubSeq(s, i, i) = "/"
                    /\ \A k \in 1..(i - 1) : SubSeq(s, k, k) # "/"
         IN  <<SubSeq(s, 1, n - 1)>> \o SplitSlash(SubSeq(s, n + 1, Len(s)))
    ELSE <<s>>

\* Lines 62-64
start_paths(template_names) ==
    UNION { {"templates/" \o template_names[i],
             "rendered/" \o template_names[i]} : i \in DOMAIN template_names }

\* The test of line 66 asking for the directory of the template.
MatchesStartDirectory(path, starts) ==
    \E start \in starts : StartsWith(path, start \o "/")

\* Line 66: path.startswith(tuple(start_paths))
MatchesStart(path, starts) ==
    \E start \in starts : StartsWith(path, start)

\* templates_from_files, lines 58-70
templates_from_files(files, template_names) ==
    LET starts == start_paths(template_names)
        templates ==
            { SplitSlash(files[i])[2] :
                i \in { j \in DOMAIN files :
                          /\ MatchesStart(files[j], starts)
                          /\ Len(SplitSlash(files[j])) >= 2
                          /\ SplitSlash(files[j])[2] # "" } }
    IN  SortedStrings(templates)

\* json.dumps of a list of strings that need no escaping
RECURSIVE JsonItems(_)
JsonItems(names) ==
    IF names = <<>> THEN ""
    ELSE "\"" \o Head(names) \o "\""
            \o (IF Len(names) > 1 THEN ", " ELSE "")
            \o JsonItems(Tail(names))

JsonDumps(names) == "[" \o JsonItems(names) \o "]"

MaxChangedFiles == 2

\* Paths git can list, as list_changed_files returns them: sorted, without
\* duplicates.
ChangedPaths ==
    {"README.md", "templates/basic/a.py", "templates/basic-ui/a.py",
     "rendered/basic-ui/a.py", "rendered/basic", "templates/ui/a.py"}

ChangedFileLists ==
    { SortedStrings(paths) :
        paths \in { some \in SUBSET ChangedPaths :
                        Cardinality(some) <= MaxChangedFiles } }

\* The keys of the mapping.
TemplateNameLists ==
    {<<>>, <<"basic">>, <<"basic-ui">>, <<"basic", "basic-ui">>,
     <<"basic-ui", "basic">>}

\* changed_cmd, lines 168-182: the changed templates are computed, printed
\* in the format asked for and, with --github-output and $GITHUB_OUTPUT
\* set, appended to that file.
ChangedCmd ==
    /\ pc = "changed"
    /\ pc' = "changed_done"
    /\ d_changed' = templates_from_files(d_files, d_template_names)
    /\ d_printed' = IF d_fmt = "json"
                    THEN <<JsonDumps(d_changed')>>
                    ELSE d_changed'
    /\ \E github_output \in BOOLEAN, gh_out \in {"", "out.txt"} :
          d_github_output' =
             IF github_output /\ gh_out # ""
             THEN <<"json=" \o JsonDumps(d_changed'),
                    "has_changes=" \o (IF d_changed' # <<>>
                                       THEN "true" ELSE "false")>>
             ELSE <<>>
    /\ UNCHANGED <<d_files, d_template_names, d_fmt, syncData, changedRest>>

NextChanged == ChangedCmd

InitChanged ==
    /\ pc = "changed"
    /\ resolverIdle
    /\ validatorIdle
    /\ comparatorIdle
    /\ driverIdle
    /\ changedRestIdle
    /\ d_files \in ChangedFileLists
    /\ d_template_names \in TemplateNameLists
    /\ d_fmt \in {"json", "lines"}
    /\ d_changed = <<>>
    /\ d_printed = <<>>
    /\ d_github_output = <<>>

SpecChanged == InitChanged /\ [][NextChanged]_vars

C30_Names == {d_template_names[i] : i \in DOMAIN d_template_names}
C30_Result == {d_changed[i] : i \in DOMAIN d_changed}

C30_SortedNoDuplicates ==
    \A i, j \in DOMAIN d_changed : i < j => StrLess(d_changed[i], d_changed[j])

\* Some changed path lies under templates/N/ or rendered/N/.
C30_ChangedUnder(N) ==
    \E i \in DOMAIN d_files :
        \/ StartsWith(d_files[i], "templates/" \o N \o "/")
        \/ StartsWith(d_files[i], "rendered/" \o N \o "/")

\* C30: the result of templates_from_files is sorted and duplicate-free, a
\* subset of template_names, and holds a name exactly when a changed path
\* lies under templates/<name>/ or rendered/<name>/.
C30_OnlyConfiguredTemplates ==
    pc = "changed_done" =>
        /\ C30_SortedNoDuplicates
        /\ C30_Result \subseteq C30_Names
        /\ \A N \in C30_Names \cup C30_Result :
                N \in C30_Result <=> C30_ChangedUnder(N)

\* What does hold: the result is sorted and duplicate-free, holds every
\* configured name with a changed path in its directory, and each of its
\* elements begins with a configured name.
C30_ConfiguredPrefixes ==
    pc = "changed_done" =>
        /\ C30_SortedNoDuplicates
        /\ \A N \in C30_Names : C30_ChangedUnder(N) => N \in C30_Result
        /\ \A N \in C30_Result : \E M \in C30_Names : StartsWith(N, M)

\* Only basic is configured, only a file of basic-ui changed, and basic-ui
\* is printed as changed.
C30_UnconfiguredReturned ==
    /\ pc = "changed_done"
    /\ d_template_names = <<"basic">>
    /\ d_files = <<"templates/basic-ui/a.py">>
    /\ d_changed = <<"basic-ui">>

============================================================================
